---------------------------- MODULE Spec2Model ----------------------------
(***************************************************************************)
(* A model of the voice-command task agent (jmm-1987/agente):              *)
(*   - Database._execute_with_retry           (src/database.py)            *)
(*   - _get_whisper_model                     (src/audio_pipeline.py)      *)
(*   - the client registry and the resolver   (src/database.py,            *)
(*                                              src/parser.py)             *)
(*   - the task store and the conversation    (src/database.py,            *)
(*     handlers                                 src/telegram_bot.py)       *)
(*   - the side-flows and the voice ingest    (src/telegram_bot.py,        *)
(*                                              src/audio_pipeline.py)     *)
(*   - IntentParser.parse                     (src/parser.py)              *)
(*   - delete_task and complete_task, one     (src/database.py,            *)
(*     call step by step                        src/sftp_storage.py)       *)
(* Each part has its own specification (SpecRetry, SpecWhisper,            *)
(* SpecWhisperFair, SpecClients, SpecStore, SpecTaskFields, SpecBot,       *)
(* SpecFlows, SpecVoice, SpecParser, SpecCalls); the variables of the      *)
(* other parts stay parked.                                                *)
(***************************************************************************)
EXTENDS Integers, Sequences, FiniteSets, TLC

VARIABLES
    \* ---- Database._execute_with_retry -------------------------------
    rMax,        \* max_retries of the call
    rDelay,      \* delay of the call, in units of 0.1 s
    rPc,         \* position in the loop
    rAttempt,    \* the loop variable attempt
    rConn,       \* TRUE while the attempt's connection is open
    rHist,       \* what each attempt so far ended with
    rSlept,      \* total time slept in time.sleep, in units of 0.1 s
    rSleeps,     \* number of time.sleep calls
    rRaised,     \* the error the call raised, or NoError
    rResult,     \* the value the call returned, or NoResult
    rOpResult,   \* the value operation(conn) returned in the open attempt
    rTxn,        \* executions of the operation pending in the open transaction
    rApplied,    \* executions of the operation that were committed
    \* ---- _get_whisper_model -----------------------------------------
    whisper_model,  \* the global _whisper_model: NoModel or <<instance>>
    model_lock,     \* the holders of _model_lock: {} or {thread}
    wPc,            \* each thread's position in _get_whisper_model
    wRet,           \* what each thread's last finished call returned
    wErr,           \* TRUE when the thread's last finished call raised
    wTookLock,      \* the thread's current/last call acquired _model_lock
    wWarmAtCall,    \* _whisper_model was loaded when the call began
    wCalls,         \* calls started so far
    wBuilt,         \* WhisperModel constructions that succeeded
    wLoadEntered,   \* entries into the load section (past the second check)
    wLoadFailed,    \* load sections left by an exception
    \* ---- the client registry and the resolver -----------------------
    clients,        \* the rows of table clients
    nextClientId,   \* the next AUTOINCREMENT id of table clients
    cLast,          \* the last registry operation and how it ended
    cfg,            \* config.CLIENT_MATCH_*: thresholds and max candidates
    mention,        \* the argument of the last _fuzzy_match_client call
    match,          \* the result of the last _fuzzy_match_client call
    \* ---- the task store ---------------------------------------------
    tasks,          \* the rows of table tasks
    nextTaskId,     \* the next AUTOINCREMENT id of table tasks
    task_images,    \* the rows of table task_images
    nextImageId,    \* the next AUTOINCREMENT id of table task_images
    foreign_keys,   \* SQLite enforces the FOREIGN KEY clauses
    blobs,          \* file paths that still exist on the SFTP server
    tLast,          \* the last task-store operation and how it ended
    \* ---- the conversation handlers ------------------------------------
    user_states,    \* TelegramBotHandler.user_states, per user
    prompts,        \* per user, the client questions whose buttons are shown
    pendingNew,     \* _create_new_client_and_task calls past create_client
    selections,     \* per user, the category selections made while asked
    handlers,       \* the side-flow handler calls and where each one stands
    lastReply,      \* the last reply that asked again or reported a failure
    \* ---- the voice ingest ------------------------------------------------
    ingests,        \* the voice messages: handler and worker positions
    temp_files,     \* the files that exist in config.TEMP_DIR
    ffmpeg_runs,    \* the ffmpeg invocations of convert_to_wav
    wav_audio,      \* the ingest whose audio temp_wav holds, or 0
    \* ---- IntentParser.parse on one text -----------------------------------
    pText,          \* the text given to parse
    pToday,         \* datetime.now().weekday() at the call (0 = Monday)
    pOut,           \* what parse returned, or NotParsed
    pTitle2,        \* _extract_title of the returned title, or NotParsed
    \* ---- one call of delete_task or complete_task, step by step ------------
    oOp,            \* the operation: "delete_task" or "complete_task"
    oPc,            \* its position
    oConn,          \* TRUE while a connection the operation opened is open
    oNet,           \* TRUE while a call to the SFTP server is in progress
    oLeft           \* images of the task whose remote file is still to delete

retryVars == <<rMax, rDelay, rPc, rAttempt, rConn, rHist, rSlept, rSleeps,
               rRaised, rResult, rOpResult, rTxn, rApplied>>

whisperVars == <<whisper_model, model_lock, wPc, wRet, wErr, wTookLock,
                 wWarmAtCall, wCalls, wBuilt, wLoadEntered, wLoadFailed>>

clientVars == <<clients, nextClientId, cLast>>

resolverVars == <<cfg, mention, match>>

storeVars == <<tasks, nextTaskId, task_images, nextImageId, foreign_keys,
               blobs, tLast>>

botVars == <<user_states, prompts, pendingNew, selections>>

flowVars == <<handlers, ingests, temp_files, ffmpeg_runs, wav_audio>>

parserVars == <<pText, pToday, pOut, pTitle2>>

callVars == <<oOp, oPc, oConn, oNet, oLeft>>

vars == <<retryVars, whisperVars, clientVars, resolverVars, storeVars,
          botVars, flowVars, parserVars, callVars, lastReply>>

\* What the actions of one part leave alone.
outsideRetry ==
    <<whisperVars, clientVars, resolverVars, storeVars, botVars, flowVars,
      parserVars, callVars, lastReply>>
outsideWhisper ==
    <<retryVars, clientVars, resolverVars, storeVars, botVars, flowVars,
      parserVars, callVars, lastReply>>
outsideClients ==
    <<retryVars, whisperVars, cfg, storeVars, botVars, flowVars, parserVars, callVars,
      lastReply>>
outsideResolver ==
    <<retryVars, whisperVars, clientVars, storeVars, botVars, flowVars,
      parserVars, callVars, lastReply>>
outsideStore ==
    <<retryVars, whisperVars, clientVars, resolverVars, botVars, flowVars,
      parserVars, callVars, lastReply>>
outsideReplies == <<retryVars, whisperVars, resolverVars, parserVars, callVars>>
outsideBot == <<outsideReplies, flowVars, lastReply>>
outsideFlows == <<outsideReplies, clientVars, lastReply>>
outsideParser ==
    <<retryVars, whisperVars, clientVars, resolverVars, storeVars, botVars,
      flowVars, callVars, lastReply>>
outsideCalls ==
    <<whisperVars, clientVars, resolverVars, storeVars, botVars, flowVars,
      parserVars, lastReply>>

None == "None"

(***************************************************************************)
(*                      Database._execute_with_retry                       *)
(***************************************************************************)

\* Bounds of the retry model.
MaxRetriesBound == 4
MaxDelayBound == 2

\* The default arguments of _execute_with_retry.
DefaultMaxRetries == 5
DefaultDelay == 2

NoError == "NoError"
NoResult == "NoResult"

\* Errors an attempt can raise.  "locked" is sqlite3.OperationalError whose
\* message contains "locked" ("database is locked", "database table is
\* locked"); "operational" is any other sqlite3.OperationalError;
\* "integrity" stands for every exception that is not an OperationalError.
OperationalErrors == {"locked", "operational"}
AttemptErrors == {"locked", "operational", "integrity"}

\* The error raised after the loop (database.py line 108-110).
StoreBusy == "store_busy"

\* Values an operation can return (cursor.lastrowid, rowcount > 0).
OpResults == {"row1", "row2"}

RECURSIVE Pow2(_)
Pow2(n) == IF n = 0 THEN 1 ELSE 2 * Pow2(n - 1)

\* "database is locked" in error_msg or "locked" in error_msg
IsLockedMutant(e) == e \in OperationalErrors
IsLocked(e) == e = "locked"

\* wait_time = delay * (2 ** attempt)
WaitTimeMutant(delay, attempt) == delay * attempt
WaitTime(delay, attempt) == delay * Pow2(attempt)

\* attempt < max_retries - 1
MayRetry(attempt, max_retries) == attempt < max_retries - 1

\* conn.rollback() (line 64), then time.sleep(wait_time): the sleep is
\* inside the try whose finally clause closes the connection, so a
\* connection that was opened stays open while the call sleeps.
SleepAndContinue(e) ==
    /\ rSlept' = rSlept + WaitTime(rDelay, rAttempt)
    /\ rSleeps' = rSleeps + 1
    /\ rHist' = Append(rHist, e)
    /\ rPc' = "sleeping"
    /\ rTxn' = 0
    /\ UNCHANGED <<rAttempt, rConn, rRaised, rResult, rApplied>>

\* raise: the error leaves the call; the finally clause closes the
\* connection, and what the transaction held uncommitted is discarded.
PropagateMutant(e) ==
    /\ rRaised' = e
    /\ rHist' = Append(rHist, e)
    /\ rPc' = "raised"
    /\ rConn' = FALSE
    /\ rApplied' = rApplied + rTxn
    /\ rTxn' = 0
    /\ UNCHANGED <<rSlept, rSleeps, rAttempt, rResult>>
Propagate(e) ==
    /\ rRaised' = e
    /\ rHist' = Append(rHist, e)
    /\ rPc' = "raised"
    /\ rConn' = FALSE
    /\ rTxn' = 0
    /\ UNCHANGED <<rSlept, rSleeps, rAttempt, rResult, rApplied>>

\* except sqlite3.OperationalError / except Exception of the outer try
\* (lines 87-105); an error re-raised by the inner handler lands here too.
OuterHandler(e) ==
    IF e \in OperationalErrors /\ IsLocked(e) /\ MayRetry(rAttempt, rMax)
    THEN SleepAndContinue(e)
    ELSE Propagate(e)

\* except sqlite3.OperationalError of the inner try (lines 63-81): rollback,
\* then sleep and continue on a lock error with attempts left, else raise.
\* Any other exception class passes through to the outer handlers.
InnerHandler(e) ==
    IF e \in OperationalErrors /\ IsLocked(e) /\ MayRetry(rAttempt, rMax)
    THEN SleepAndContinue(e)
    ELSE OuterHandler(e)

\* conn = self.get_connection(timeout=30.0)
RetryGetConnection ==
    /\ rPc = "loop"
    /\ rAttempt < rMax
    /\ \/ /\ rPc' = "connected"
          /\ rConn' = TRUE
          /\ UNCHANGED <<rAttempt, rHist, rSlept, rSleeps, rRaised, rResult,
                         rTxn, rApplied>>
       \/ \E e \in OperationalErrors : OuterHandler(e)
    /\ UNCHANGED <<rMax, rDelay, rOpResult>>
    /\ UNCHANGED outsideRetry

\* result = operation(conn)
RetryOperation ==
    /\ rPc = "connected"
    /\ \/ \E v \in OpResults :
            /\ rOpResult' = v
            /\ rPc' = "executed"
            /\ rTxn' = rTxn + 1
            /\ UNCHANGED <<rAttempt, rConn, rHist, rSlept, rSleeps, rRaised,
                           rResult, rApplied>>
       \/ /\ \E e \in AttemptErrors : InnerHandler(e)
          /\ UNCHANGED rOpResult
    /\ UNCHANGED <<rMax, rDelay>>
    /\ UNCHANGED outsideRetry

\* conn.commit(); return result
RetryCommit ==
    /\ rPc = "executed"
    /\ \/ /\ rResult' = rOpResult
          /\ rHist' = Append(rHist, "ok")
          /\ rPc' = "returned"
          /\ rConn' = FALSE
          /\ rApplied' = rApplied + rTxn
          /\ rTxn' = 0
          /\ UNCHANGED <<rAttempt, rSlept, rSleeps, rRaised>>
       \/ \E e \in OperationalErrors : InnerHandler(e)
    /\ UNCHANGED <<rMax, rDelay, rOpResult>>
    /\ UNCHANGED outsideRetry

\* The loop ran out (lines 107-110):
\* raise sqlite3.OperationalError("database is locked después de ...")
RetryExhausted ==
    /\ rPc = "loop"
    /\ rAttempt >= rMax
    /\ rRaised' = StoreBusy
    /\ rPc' = "raised"
    /\ UNCHANGED <<rMax, rDelay, rAttempt, rConn, rHist, rSlept, rSleeps,
                   rResult, rOpResult, rTxn, rApplied>>
    /\ UNCHANGED outsideRetry

\* The sleep is over: continue leaves the inner try, whose finally clause
\* closes the connection (lines 82-86), and the loop goes on.
RetryWake ==
    /\ rPc = "sleeping"
    /\ rPc' = "loop"
    /\ rAttempt' = rAttempt + 1
    /\ rConn' = FALSE
    /\ UNCHANGED <<rMax, rDelay, rHist, rSlept, rSleeps, rRaised, rResult,
                   rOpResult, rTxn, rApplied>>
    /\ UNCHANGED outsideRetry

InitRetry ==
    /\ rMax \in (0 .. MaxRetriesBound) \cup {DefaultMaxRetries}
    /\ rDelay \in (1 .. MaxDelayBound) \cup {DefaultDelay}
    /\ rPc = "loop"
    /\ rAttempt = 0
    /\ rConn = FALSE
    /\ rHist = <<>>
    /\ rSlept = 0
    /\ rSleeps = 0
    /\ rRaised = NoError
    /\ rResult = NoResult
    /\ rOpResult = NoResult
    /\ rTxn = 0
    /\ rApplied = 0

ParkedRetry ==
    /\ rMax = 0 /\ rDelay = 0 /\ rPc = "parked" /\ rAttempt = 0
    /\ rConn = FALSE /\ rHist = <<>> /\ rSlept = 0 /\ rSleeps = 0
    /\ rRaised = NoError /\ rResult = NoResult /\ rOpResult = NoResult
    /\ rTxn = 0 /\ rApplied = 0

NextRetry ==
    \/ RetryGetConnection
    \/ RetryOperation
    \/ RetryCommit
    \/ RetryWake
    \/ RetryExhausted

\* Number of attempts of the call that ended with a lock error.
RECURSIVE CountLocked(_)
CountLocked(h) ==
    IF h = <<>> THEN 0
    ELSE (IF Head(h) = "locked" THEN 1 ELSE 0) + CountLocked(Tail(h))

\* d*2^0 + ... + d*2^(k-1)
RECURSIVE SumBackoff(_, _)
SumBackoff(d, k) == IF k = 0 THEN 0 ELSE SumBackoff(d, k - 1) + d * Pow2(k - 1)

(***************************************************************************)
(*                          _get_whisper_model                             *)
(***************************************************************************)

\* Bounds of the model-load model.
NumThreads == 2
MaxCalls == 3

WThreads == 1 .. NumThreads

\* _whisper_model = None: no instance; an instance is <<its number>>.
NoModel == <<>>
\* is_model_loaded(): _whisper_model is not None
is_model_loaded == whisper_model # NoModel
\* _model_lock is free: no holder; held by t it is {t}.
NoHolder == {}

\* Positions between "import" and the return: the load section, which runs
\* with _model_lock held and _whisper_model found None by the second check.
LoadPcs == {"import", "try1", "try2", "try3", "try4", "loaded"}

\* The four WhisperModel(...) calls in turn (lines 173, 180, 187, 191).
NextTry(pc) ==
    CASE pc = "try1" -> "try2"
      [] pc = "try2" -> "try3"
      [] pc = "try3" -> "try4"

\* if _whisper_model is not None: return _whisper_model   (line 146, line 151)
FirstCheckHit(m) == m # NoModel
SecondCheckHitMutant(m) == FALSE
SecondCheckHit(m) == m # NoModel

\* A thread enters _get_whisper_model.
WCall(t) ==
    /\ wPc[t] = "idle"
    /\ wCalls < MaxCalls
    /\ wCalls' = wCalls + 1
    /\ wPc' = [wPc EXCEPT ![t] = "check1"]
    /\ wRet' = [wRet EXCEPT ![t] = NoModel]
    /\ wErr' = [wErr EXCEPT ![t] = FALSE]
    /\ wTookLock' = [wTookLock EXCEPT ![t] = FALSE]
    /\ wWarmAtCall' = [wWarmAtCall EXCEPT ![t] = whisper_model # NoModel]
    /\ UNCHANGED <<whisper_model, model_lock, wBuilt, wLoadEntered,
                   wLoadFailed>>
    /\ UNCHANGED outsideWhisper

\* The unlocked first check (lines 146-147).
WCheck1(t) ==
    /\ wPc[t] = "check1"
    /\ IF FirstCheckHit(whisper_model)
       THEN /\ wRet' = [wRet EXCEPT ![t] = whisper_model]
            /\ wPc' = [wPc EXCEPT ![t] = "idle"]
       ELSE /\ wPc' = [wPc EXCEPT ![t] = "acquire"]
            /\ UNCHANGED wRet
    /\ UNCHANGED <<whisper_model, model_lock, wErr, wTookLock, wWarmAtCall,
                   wCalls, wBuilt, wLoadEntered, wLoadFailed>>
    /\ UNCHANGED outsideWhisper

\* with _model_lock:  (line 149) blocks until the lock is free.
WAcquire(t) ==
    /\ wPc[t] = "acquire"
    /\ model_lock = NoHolder
    /\ model_lock' = {t}
    /\ wTookLock' = [wTookLock EXCEPT ![t] = TRUE]
    /\ wPc' = [wPc EXCEPT ![t] = "check2"]
    /\ UNCHANGED <<whisper_model, wRet, wErr, wWarmAtCall, wCalls, wBuilt,
                   wLoadEntered, wLoadFailed>>
    /\ UNCHANGED outsideWhisper

\* The second check, under the lock (lines 151-152).
WCheck2(t) ==
    /\ wPc[t] = "check2"
    /\ IF SecondCheckHit(whisper_model)
       THEN /\ wRet' = [wRet EXCEPT ![t] = whisper_model]
            /\ wPc' = [wPc EXCEPT ![t] = "idle"]
            /\ model_lock' = NoHolder
            /\ UNCHANGED wLoadEntered
       ELSE /\ wPc' = [wPc EXCEPT ![t] = "import"]
            /\ wLoadEntered' = wLoadEntered + 1
            /\ UNCHANGED <<wRet, model_lock>>
    /\ UNCHANGED <<whisper_model, wErr, wTookLock, wWarmAtCall, wCalls,
                   wBuilt, wLoadFailed>>
    /\ UNCHANGED outsideWhisper

\* An exception leaves the with block: the lock is released, the model is
\* left as it was, the caller gets the error.
WRaiseMutant(t) ==
    /\ wErr' = [wErr EXCEPT ![t] = TRUE]
    /\ wPc' = [wPc EXCEPT ![t] = "idle"]
    /\ UNCHANGED model_lock
    /\ wLoadFailed' = wLoadFailed + 1
    /\ UNCHANGED <<whisper_model, wBuilt>>
WRaise(t) ==
    /\ wErr' = [wErr EXCEPT ![t] = TRUE]
    /\ wPc' = [wPc EXCEPT ![t] = "idle"]
    /\ model_lock' = NoHolder
    /\ wLoadFailed' = wLoadFailed + 1
    /\ UNCHANGED <<whisper_model, wBuilt>>

\* from faster_whisper import WhisperModel  (lines 158-164)
WImport(t) ==
    /\ wPc[t] = "import"
    /\ \/ /\ wPc' = [wPc EXCEPT ![t] = "try1"]
          /\ UNCHANGED <<whisper_model, model_lock, wErr, wBuilt, wLoadFailed>>
       \/ WRaise(t)
    /\ UNCHANGED <<wRet, wTookLock, wWarmAtCall, wCalls, wLoadEntered>>
    /\ UNCHANGED outsideWhisper

\* _whisper_model = WhisperModel(...): each of the four calls either builds
\* the model or raises; only the last one's exception leaves the function.
WConstruct(t) ==
    /\ wPc[t] \in {"try1", "try2", "try3", "try4"}
    /\ \/ /\ whisper_model' = <<wBuilt + 1>>
          /\ wBuilt' = wBuilt + 1
          /\ wPc' = [wPc EXCEPT ![t] = "loaded"]
          /\ UNCHANGED <<model_lock, wErr, wLoadFailed>>
       \/ /\ wPc[t] # "try4"
          /\ wPc' = [wPc EXCEPT ![t] = NextTry(wPc[t])]
          /\ UNCHANGED <<whisper_model, model_lock, wErr, wBuilt, wLoadFailed>>
       \/ /\ wPc[t] = "try4"
          /\ WRaise(t)
    /\ UNCHANGED <<wRet, wTookLock, wWarmAtCall, wCalls, wLoadEntered>>
    /\ UNCHANGED outsideWhisper

\* return _whisper_model  (line 194), leaving the with block.
WReturn(t) ==
    /\ wPc[t] = "loaded"
    /\ wRet' = [wRet EXCEPT ![t] = whisper_model]
    /\ wPc' = [wPc EXCEPT ![t] = "idle"]
    /\ model_lock' = NoHolder
    /\ UNCHANGED <<whisper_model, wErr, wTookLock, wWarmAtCall, wCalls,
                   wBuilt, wLoadEntered, wLoadFailed>>
    /\ UNCHANGED outsideWhisper

InitWhisper ==
    /\ whisper_model = NoModel
    /\ model_lock = NoHolder
    /\ wPc = [t \in WThreads |-> "idle"]
    /\ wRet = [t \in WThreads |-> NoModel]
    /\ wErr = [t \in WThreads |-> FALSE]
    /\ wTookLock = [t \in WThreads |-> FALSE]
    /\ wWarmAtCall = [t \in WThreads |-> FALSE]
    /\ wCalls = 0
    /\ wBuilt = 0
    /\ wLoadEntered = 0
    /\ wLoadFailed = 0

ParkedWhisper ==
    /\ whisper_model = NoModel /\ model_lock = NoHolder
    /\ wPc = <<>> /\ wRet = <<>> /\ wErr = <<>> /\ wTookLock = <<>>
    /\ wWarmAtCall = <<>> /\ wCalls = 0 /\ wBuilt = 0
    /\ wLoadEntered = 0 /\ wLoadFailed = 0

NextWhisper ==
    \/ \E t \in WThreads : WCall(t)
    \/ \E t \in WThreads : WCheck1(t)
    \/ \E t \in WThreads : WAcquire(t)
    \/ \E t \in WThreads : WCheck2(t)
    \/ \E t \in WThreads : WImport(t)
    \/ \E t \in WThreads : WConstruct(t)
    \/ \E t \in WThreads : WReturn(t)

(***************************************************************************)
(*              Strings, normalize_text and the similarity ratio           *)
(***************************************************************************)

\* A string is the sequence of its characters.  Client names, aliases and
\* mentions are written as tokens; Chars gives each token's characters.
NameTokens == {"Ab", "áB", "abc", "a  b", "cc"}
AliasTokens == {"ab"}
MentionTokens == {"AB", "abcd", "cc", ""}

\* The characters of every token, as one function of the token.
CharsOfWord ==
         "Ab" :> <<"A", "b">>
      @@ "AB" :> <<"A", "B">>
      @@ "áB" :> <<"á", "B">>
      @@ "ab" :> <<"a", "b">>
      @@ "abc" :> <<"a", "b", "c">>
      @@ "abcd" :> <<"a", "b", "c", "d">>
      @@ "a  b" :> <<"a", " ", " ", "b">>
      @@ "cc" :> <<"c", "c">>
      @@ "" :> <<>>
      \* the words of the parser's tables and of the command texts
      @@ "crear" :> <<"c", "r", "e", "a", "r">>
      @@ "nueva" :> <<"n", "u", "e", "v", "a">>
      @@ "añadir" :> <<"a", "ñ", "a", "d", "i", "r">>
      @@ "agregar" :> <<"a", "g", "r", "e", "g", "a", "r">>
      @@ "poner" :> <<"p", "o", "n", "e", "r">>
      @@ "hacer" :> <<"h", "a", "c", "e", "r">>
      @@ "tengo que" :> <<"t", "e", "n", "g", "o", " ", "q", "u", "e">>
      @@ "necesito" :> <<"n", "e", "c", "e", "s", "i", "t", "o">>
      @@ "tarea" :> <<"t", "a", "r", "e", "a">>
      @@ "recordatorio" :> <<"r", "e", "c", "o", "r", "d", "a", "t", "o", "r", "i", "o">>
      @@ "nota" :> <<"n", "o", "t", "a">>
      @@ "evento" :> <<"e", "v", "e", "n", "t", "o">>
      @@ "cosa" :> <<"c", "o", "s", "a">>
      @@ "listar" :> <<"l", "i", "s", "t", "a", "r">>
      @@ "mostrar" :> <<"m", "o", "s", "t", "r", "a", "r">>
      @@ "ver" :> <<"v", "e", "r">>
      @@ "dame" :> <<"d", "a", "m", "e">>
      @@ "muéstrame" :> <<"m", "u", "é", "s", "t", "r", "a", "m", "e">>
      @@ "qué" :> <<"q", "u", "é">>
      @@ "cuáles" :> <<"c", "u", "á", "l", "e", "s">>
      @@ "tareas" :> <<"t", "a", "r", "e", "a", "s">>
      @@ "pendientes" :> <<"p", "e", "n", "d", "i", "e", "n", "t", "e", "s">>
      @@ "cosas" :> <<"c", "o", "s", "a", "s">>
      @@ "recordatorios" :> <<"r", "e", "c", "o", "r", "d", "a", "t", "o", "r", "i", "o", "s">>
      @@ "cerrar" :> <<"c", "e", "r", "r", "a", "r">>
      @@ "completar" :> <<"c", "o", "m", "p", "l", "e", "t", "a", "r">>
      @@ "terminar" :> <<"t", "e", "r", "m", "i", "n", "a", "r">>
      @@ "hecho" :> <<"h", "e", "c", "h", "o">>
      @@ "realizado" :> <<"r", "e", "a", "l", "i", "z", "a", "d", "o">>
      @@ "finalizar" :> <<"f", "i", "n", "a", "l", "i", "z", "a", "r">>
      @@ "marcar como hecha" :> <<"m", "a", "r", "c", "a", "r", " ", "c", "o", "m", "o", " ", "h", "e", "c", "h", "a">>
      @@ "da por hecha" :> <<"d", "a", " ", "p", "o", "r", " ", "h", "e", "c", "h", "a">>
      @@ "reprogramar" :> <<"r", "e", "p", "r", "o", "g", "r", "a", "m", "a", "r">>
      @@ "cambiar fecha" :> <<"c", "a", "m", "b", "i", "a", "r", " ", "f", "e", "c", "h", "a">>
      @@ "mover" :> <<"m", "o", "v", "e", "r">>
      @@ "posponer" :> <<"p", "o", "s", "p", "o", "n", "e", "r">>
      @@ "aplazar" :> <<"a", "p", "l", "a", "z", "a", "r">>
      @@ "cambiar a" :> <<"c", "a", "m", "b", "i", "a", "r", " ", "a">>
      @@ "cambiar prioridad" :> <<"c", "a", "m", "b", "i", "a", "r", " ", "p", "r", "i", "o", "r", "i", "d", "a", "d">>
      @@ "prioridad" :> <<"p", "r", "i", "o", "r", "i", "d", "a", "d">>
      @@ "urgente" :> <<"u", "r", "g", "e", "n", "t", "e">>
      @@ "importante" :> <<"i", "m", "p", "o", "r", "t", "a", "n", "t", "e">>
      @@ "normal" :> <<"n", "o", "r", "m", "a", "l">>
      @@ "baja" :> <<"b", "a", "j", "a">>
      @@ "urgent" :> <<"u", "r", "g", "e", "n", "t">>
      @@ "alta" :> <<"a", "l", "t", "a">>
      @@ "high" :> <<"h", "i", "g", "h">>
      @@ "media" :> <<"m", "e", "d", "i", "a">>
      @@ "low" :> <<"l", "o", "w">>
      @@ "sin prisa" :> <<"s", "i", "n", " ", "p", "r", "i", "s", "a">>
      @@ "administracion" :> <<"a", "d", "m", "i", "n", "i", "s", "t", "r", "a", "c", "i", "o", "n">>
      @@ "administración" :> <<"a", "d", "m", "i", "n", "i", "s", "t", "r", "a", "c", "i", "ó", "n">>
      @@ "admin" :> <<"a", "d", "m", "i", "n">>
      @@ "averias" :> <<"a", "v", "e", "r", "i", "a", "s">>
      @@ "averías" :> <<"a", "v", "e", "r", "í", "a", "s">>
      @@ "averia" :> <<"a", "v", "e", "r", "i", "a">>
      @@ "avería" :> <<"a", "v", "e", "r", "í", "a">>
      @@ "clientes" :> <<"c", "l", "i", "e", "n", "t", "e", "s">>
      @@ "cliente" :> <<"c", "l", "i", "e", "n", "t", "e">>
      @@ "servicios" :> <<"s", "e", "r", "v", "i", "c", "i", "o", "s">>
      @@ "servicio" :> <<"s", "e", "r", "v", "i", "c", "i", "o">>
      \* the words of the dates and of the texts given to parse
      @@ "Acme" :> <<"A", "c", "m", "e">>
      @@ "llamar" :> <<"l", "l", "a", "m", "a", "r">>
      @@ "al" :> <<"a", "l">>
      @@ "mañana" :> <<"m", "a", "ñ", "a", "n", "a">>
      @@ "hoy" :> <<"h", "o", "y">>
      @@ "pasado" :> <<"p", "a", "s", "a", "d", "o">>
      @@ "pasado mañana" :> <<"p", "a", "s", "a", "d", "o", " ", "m", "a", "ñ", "a", "n", "a">>
      @@ "esta semana" :> <<"e", "s", "t", "a", " ", "s", "e", "m", "a", "n", "a">>
      @@ "próxima semana" :> <<"p", "r", "ó", "x", "i", "m", "a", " ", "s", "e", "m", "a", "n", "a">>
      @@ "el" :> <<"e", "l">>
      @@ "lunes" :> <<"l", "u", "n", "e", "s">>
      @@ "martes" :> <<"m", "a", "r", "t", "e", "s">>
      @@ "miércoles" :> <<"m", "i", "é", "r", "c", "o", "l", "e", "s">>
      @@ "jueves" :> <<"j", "u", "e", "v", "e", "s">>
      @@ "viernes" :> <<"v", "i", "e", "r", "n", "e", "s">>
      @@ "sábado" :> <<"s", "á", "b", "a", "d", "o">>
      @@ "domingo" :> <<"d", "o", "m", "i", "n", "g", "o">>
      @@ "el lunes" :> <<"e", "l", " ", "l", "u", "n", "e", "s">>
      @@ "el martes" :> <<"e", "l", " ", "m", "a", "r", "t", "e", "s">>
      @@ "el miércoles" :> <<"e", "l", " ", "m", "i", "é", "r", "c", "o", "l", "e", "s">>
      @@ "el jueves" :> <<"e", "l", " ", "j", "u", "e", "v", "e", "s">>
      @@ "el viernes" :> <<"e", "l", " ", "v", "i", "e", "r", "n", "e", "s">>
      @@ "el sábado" :> <<"e", "l", " ", "s", "á", "b", "a", "d", "o">>
      @@ "el domingo" :> <<"e", "l", " ", "d", "o", "m", "i", "n", "g", "o">>
      @@ "tengo" :> <<"t", "e", "n", "g", "o">>
      @@ "que" :> <<"q", "u", "e">>
      @@ "pagar" :> <<"p", "a", "g", "a", "r">>
      @@ "facturas" :> <<"f", "a", "c", "t", "u", "r", "a", "s">>
      @@ "del cliente" :> <<"d", "e", "l", " ", "c", "l", "i", "e", "n", "t", "e">>
      @@ "para el cliente" :> <<"p", "a", "r", "a", " ", "e", "l", " ", "c", "l", "i", "e", "n", "t", "e">>
      \* the words of the errors of the audio pipeline
      @@ "No" :> <<"N", "o">>
      @@ "se" :> <<"s", "e">>
      @@ "pudo" :> <<"p", "u", "d", "o">>
      @@ "transcribir" :> <<"t", "r", "a", "n", "s", "c", "r", "i", "b", "i", "r">>
      @@ "audio" :> <<"a", "u", "d", "i", "o">>
      @@ "(audio" :> <<"(", "a", "u", "d", "i", "o">>
      @@ "vacío" :> <<"v", "a", "c", "í", "o">>
      @@ "o" :> <<"o">>
      @@ "sin" :> <<"s", "i", "n">>
      @@ "voz)" :> <<"v", "o", "z", ")">>
      @@ "Audio" :> <<"A", "u", "d", "i", "o">>
      @@ "demasiado" :> <<"d", "e", "m", "a", "s", "i", "a", "d", "o">>
      @@ "largo" :> <<"l", "a", "r", "g", "o">>
      @@ "Máximo:" :> <<"M", "á", "x", "i", "m", "o", ":">>
      @@ "Archivo" :> <<"A", "r", "c", "h", "i", "v", "o">>
      @@ "de" :> <<"d", "e">>
      @@ "entrada" :> <<"e", "n", "t", "r", "a", "d", "a">>
      @@ "no" :> <<"n", "o">>
      @@ "existe:" :> <<"e", "x", "i", "s", "t", "e", ":">>
      @@ "could" :> <<"c", "o", "u", "l", "d">>
      @@ "not" :> <<"n", "o", "t">>
      @@ "convert" :> <<"c", "o", "n", "v", "e", "r", "t">>
      @@ "string" :> <<"s", "t", "r", "i", "n", "g">>
      @@ "to" :> <<"t", "o">>
      @@ "float:" :> <<"f", "l", "o", "a", "t", ":">>
      @@ "''" :> <<"'", "'">>
      @@ "Error" :> <<"E", "r", "r", "o", "r">>
      @@ "en" :> <<"e", "n">>
      @@ "ffmpeg:" :> <<"f", "f", "m", "p", "e", "g", ":">>
      @@ "Instala" :> <<"I", "n", "s", "t", "a", "l", "a">>
      @@ "https://ffmpeg.org/download.html" :> <<"h", "t", "t", "p", "s", ":", "/", "/", "f", "f", "m", "p", "e", "g", ".", "o", "r", "g", "/", "d", "o", "w", "n", "l", "o", "a", "d", ".", "h", "t", "m", "l">>
      @@ "ffmpeg" :> <<"f", "f", "m", "p", "e", "g">>
      @@ "generó" :> <<"g", "e", "n", "e", "r", "ó">>
      @@ "archivo" :> <<"a", "r", "c", "h", "i", "v", "o">>
      @@ "salida" :> <<"s", "a", "l", "i", "d", "a">>
      @@ "está" :> <<"e", "s", "t", "á">>
      @@ "instalado." :> <<"i", "n", "s", "t", "a", "l", "a", "d", "o", ".">>
      @@ "desde:" :> <<"d", "e", "s", "d", "e", ":">>
      @@ "Timeout" :> <<"T", "i", "m", "e", "o", "u", "t">>
      @@ "convertir" :> <<"c", "o", "n", "v", "e", "r", "t", "i", "r">>
      @@ "faster-whisper" :> <<"f", "a", "s", "t", "e", "r", "-", "w", "h", "i", "s", "p", "e", "r">>
      @@ "con:" :> <<"c", "o", "n", ":">>
      @@ "pip" :> <<"p", "i", "p">>
      @@ "install" :> <<"i", "n", "s", "t", "a", "l", "l">>
      @@ "audio_" :> <<"a", "u", "d", "i", "o", "_">>
      @@ "ogg" :> <<"o", "g", "g">>
      @@ "wav" :> <<"w", "a", "v">>
      @@ "Unable" :> <<"U", "n", "a", "b", "l", "e">>
      @@ "open" :> <<"o", "p", "e", "n">>
      @@ "file" :> <<"f", "i", "l", "e">>
      @@ "model.bin" :> <<"m", "o", "d", "e", "l", ".", "b", "i", "n">>
      @@ "Invalid" :> <<"I", "n", "v", "a", "l", "i", "d">>
      @@ "data" :> <<"d", "a", "t", "a">>
      @@ "found" :> <<"f", "o", "u", "n", "d">>
      @@ "when" :> <<"w", "h", "e", "n">>
      @@ "processing" :> <<"p", "r", "o", "c", "e", "s", "s", "i", "n", "g">>
      @@ "input" :> <<"i", "n", "p", "u", "t">>
      @@ "Timed" :> <<"T", "i", "m", "e", "d">>
      @@ "out" :> <<"o", "u", "t">>

Chars(w) == CharsOfWord[w]

\* The first UTF-8 byte of a character: SQLite's BINARY collation, which
\* ORDER BY name uses, compares the encoded bytes.
Code(c) ==
    CASE c = " " -> 32
      [] c = "A" -> 65
      [] c = "B" -> 66
      [] c = "a" -> 97
      [] c = "b" -> 98
      [] c = "c" -> 99
      [] c = "d" -> 100
      [] c = "á" -> 195

RECURSIVE LexLess(_, _)
LexLess(s, t) ==
    IF t = <<>> THEN FALSE
    ELSE IF s = <<>> THEN TRUE
    ELSE IF Head(s) # Head(t) THEN Code(Head(s)) < Code(Head(t))
    ELSE LexLess(Tail(s), Tail(t))

\* str.lower() of one character
Lower(c) ==
    CASE c = "A" -> "a" [] c = "B" -> "b" [] c = "E" -> "e" [] c = "I" -> "i"
      [] c = "M" -> "m" [] c = "N" -> "n" [] c = "T" -> "t" [] c = "U" -> "u"
      [] OTHER -> c

\* the diacritic of one character removed
Undiacritic(c) == CASE c = "á" -> "a" [] OTHER -> c

\* runs of whitespace collapsed to one space
RECURSIVE CollapseSpaces(_)
CollapseSpaces(s) ==
    IF Len(s) < 2 THEN s
    ELSE IF s[1] = " " /\ s[2] = " " THEN CollapseSpaces(Tail(s))
    ELSE <<s[1]>> \o CollapseSpaces(Tail(s))

\* leading and trailing whitespace removed
RECURSIVE Strip(_)
Strip(s) ==
    IF s = <<>> THEN s
    ELSE IF Head(s) = " " THEN Strip(Tail(s))
    ELSE IF s[Len(s)] = " " THEN Strip(SubSeq(s, 1, Len(s) - 1))
    ELSE s

\* utils.normalize_text: lowercase, diacritic-stripped, whitespace-collapsed
normalize_text(s) ==
    Strip(CollapseSpaces([i \in 1 .. Len(s) |-> Undiacritic(Lower(s[i]))]))

\* The length of a longest common subsequence.
RECURSIVE LCS(_, _)
LCS(s, t) ==
    IF s = <<>> \/ t = <<>> THEN 0
    ELSE IF Head(s) = Head(t) THEN 1 + LCS(Tail(s), Tail(t))
    ELSE LET a == LCS(Tail(s), t)
             b == LCS(s, Tail(t))
         IN IF a >= b THEN a ELSE b

\* rapidfuzz.fuzz.ratio: the normalized Indel similarity, 100 * 2*LCS / (len
\* + len), here rounded down (an integer threshold compares the same with
\* the rounded and the exact value); two empty strings score 100.
ratio(s, t) ==
    IF Len(s) + Len(t) = 0 THEN 100
    ELSE (200 * LCS(s, t)) \div (Len(s) + Len(t))

(***************************************************************************)
(*                 The client registry (table clients)                     *)
(***************************************************************************)

\* Bounds of the registry model.
MaxClients == 2
MaxAliases == 1

\* client_id = None
NoId == 0

NoOp == [op |-> "none", raised |-> NoError, id |-> NoId, dup |-> FALSE]

\* The alias lists the model passes: up to MaxAliases aliases.
AliasLists ==
    {<<>>} \cup
    UNION {[1 .. n -> AliasTokens] : n \in 1 .. MaxAliases}

\* name TEXT NOT NULL UNIQUE: the only uniqueness the table declares.
NameTaken(name, rows) == \E c \in rows : c.name = name

\* normalized = normalize_text(name)
NormalizedOf(name) == normalize_text(Chars(name))

\* Some row already carries the normalized form of name (history for the
\* record cLast; the table declares no constraint on normalized_name).
NormalizedTaken(name, rows) ==
    \E c \in rows : c.normalized_name = NormalizedOf(name)

\* Database.create_client: INSERT INTO clients; sqlite3.IntegrityError
\* becomes ValueError("Cliente ... ya existe").
create_client(name, aliases) ==
    /\ nextClientId <= MaxClients
    /\ IF NameTaken(name, clients)
       THEN /\ cLast' = [op |-> "create_client", raised |-> "ValueError",
                         id |-> NoId,
                         dup |-> NormalizedTaken(name, clients)]
            /\ UNCHANGED <<clients, nextClientId>>
       ELSE /\ clients' = clients \cup
                   {[id |-> nextClientId, name |-> name,
                     normalized_name |-> NormalizedOf(name),
                     aliases |-> aliases]}
            /\ nextClientId' = nextClientId + 1
            /\ cLast' = [op |-> "create_client", raised |-> NoError,
                         id |-> nextClientId,
                         dup |-> NormalizedTaken(name, clients)]

\* Database.update_client: name and normalized_name together when a name is
\* given, aliases when given; a taken name raises sqlite3.IntegrityError and
\* nothing is committed.
update_client(client_id, name, newAliases, setName, setAliases) ==
    /\ \E c \in clients : c.id = client_id
    /\ setName \/ setAliases
    /\ LET c == CHOOSE x \in clients : x.id = client_id
           d == [c EXCEPT
                   !.name = IF setName THEN name ELSE @,
                   !.normalized_name =
                       IF setName THEN NormalizedOf(name) ELSE @,
                   !.aliases = IF setAliases THEN newAliases ELSE @]
       IN IF setName /\ NameTaken(name, clients \ {c})
          THEN /\ cLast' = [op |-> "update_client",
                            raised |-> "IntegrityError", id |-> client_id,
                            dup |-> TRUE]
               /\ UNCHANGED <<clients, nextClientId>>
          ELSE /\ clients' = (clients \ {c}) \cup {d}
               /\ cLast' = [op |-> "update_client", raised |-> NoError,
                            id |-> client_id,
                            dup |-> setName /\
                                NormalizedTaken(name, clients \ {c})]
               /\ UNCHANGED nextClientId

\* ON DELETE SET NULL of tasks.client_id: in force only when SQLite enforces
\* foreign keys; otherwise the tasks keep the id of the deleted client.
SetNullClient(rows, client_id, enforced) ==
    IF enforced
    THEN {IF t.client_id = client_id THEN [t EXCEPT !.client_id = NoId]
          ELSE t : t \in rows}
    ELSE rows

\* Database.delete_client: DELETE FROM clients WHERE id = ?
delete_client(client_id) ==
    /\ \E c \in clients : c.id = client_id
    /\ clients' = {c \in clients : c.id # client_id}
    /\ tasks' = SetNullClient(tasks, client_id, foreign_keys)
    /\ cLast' = [op |-> "delete_client", raised |-> NoError,
                 id |-> client_id, dup |-> FALSE]
    /\ UNCHANGED nextClientId

\* Database.get_all_clients: SELECT * FROM clients ORDER BY name
RECURSIVE get_all_clients(_)
get_all_clients(rows) ==
    IF rows = {} THEN <<>>
    ELSE LET first == CHOOSE c \in rows :
                 \A d \in rows \ {c} : LexLess(Chars(c.name), Chars(d.name))
         IN <<first>> \o get_all_clients(rows \ {first})

\* The registry operations as steps of the admin pages and of the bot.  The
\* value a _fuzzy_match_client call returned is kept only until the next
\* operation.
ForgetMatch == mention' = "" /\ match' = [action |-> "none"]

CreateClient ==
    /\ \E name \in NameTokens, aliases \in AliasLists :
           create_client(name, aliases)
    /\ ForgetMatch
    /\ UNCHANGED outsideClients

UpdateClient ==
    /\ \E c \in clients, name \in NameTokens, aliases \in AliasLists,
          setName \in BOOLEAN, setAliases \in BOOLEAN :
           update_client(c.id, name, aliases, setName, setAliases)
    /\ ForgetMatch
    /\ UNCHANGED outsideClients

DeleteClient ==
    /\ \E c \in clients : delete_client(c.id)
    /\ ForgetMatch
    /\ UNCHANGED <<retryVars, whisperVars, cfg, botVars, flowVars, parserVars, callVars,
                   lastReply,
                   nextTaskId,
                   task_images, nextImageId, foreign_keys, blobs, tLast>>

InitClients ==
    /\ clients = {}
    /\ nextClientId = 1
    /\ cLast = NoOp

ParkedClients == InitClients

(***************************************************************************)
(*              IntentParser._fuzzy_match_client (the resolver)            *)
(***************************************************************************)

\* Bound of the resolver model: the largest CLIENT_MATCH_MAX_CANDIDATES.
MaxCandidatesBound == 2

\* config.CLIENT_MATCH_THRESHOLD_AUTO, CLIENT_MATCH_THRESHOLD_CONFIRM and
\* CLIENT_MATCH_MAX_CANDIDATES: configured values with AUTO >= CONFIRM.
ClientMatchConfigs ==
    {[auto |-> t[1], confirm |-> t[2], max_candidates |-> n] :
        t \in {<<85, 60>>, <<80, 80>>}, n \in 1 .. MaxCandidatesBound}

NoMatch == [action |-> "none"]

\* all_names: each client's (id, name, normalized_name) followed by one
\* (id, alias, normalize_text(alias)) per alias, clients in ORDER BY name.
RECURSIVE AllNames(_)
AllNames(candidates) ==
    IF candidates = <<>> THEN <<>>
    ELSE LET c == Head(candidates) IN
         <<[id |-> c.id, name |-> c.name, norm |-> c.normalized_name]>>
         \o [i \in 1 .. Len(c.aliases) |->
                [id |-> c.id, name |-> c.aliases[i],
                 norm |-> normalize_text(Chars(c.aliases[i]))]]
         \o AllNames(Tail(candidates))

\* The matches in the order process.extract returns them: by score, highest
\* first, equal scores in the order of the choices.
RECURSIVE SortMatches(_)
SortMatches(ms) ==
    IF ms = {} THEN <<>>
    ELSE LET best == CHOOSE m \in ms : \A o \in ms \ {m} :
                 \/ m.score > o.score
                 \/ (m.score = o.score /\ m.index < o.index)
         IN <<best>> \o SortMatches(ms \ {best})

\* rapidfuzz.process.extract(query, choices, scorer=fuzz.ratio, limit=limit)
extract(query, choices, limit) ==
    LET ms == {[choice |-> choices[i], score |-> ratio(query, choices[i]),
                index |-> i] : i \in 1 .. Len(choices)}
        sorted == SortMatches(ms)
    IN SubSeq(sorted, 1, IF Len(sorted) < limit THEN Len(sorted) ELSE limit)

\* for name_tuple in all_names: if name_tuple[2] == matched: ... break
FirstNamed(all_names, matched) ==
    all_names[CHOOSE i \in 1 .. Len(all_names) :
                 /\ all_names[i].norm = matched
                 /\ \A j \in 1 .. i - 1 : all_names[j].norm # matched]

\* for candidate in candidates: if candidate['id'] == client_id: ... break
NameOfId(candidates, client_id) ==
    candidates[CHOOSE i \in 1 .. Len(candidates) :
                  candidates[i].id = client_id].name

\* if confidence >= config.CLIENT_MATCH_THRESHOLD_AUTO
IsAutoMutant(confidence, config) == confidence > config.auto
IsAuto(confidence, config) == confidence >= config.auto

\* matches[0][1] < config.CLIENT_MATCH_THRESHOLD_CONFIRM
BelowConfirm(confidence, config) == confidence < config.confirm

\* The exact match on the normalized name (lines 147-157): the first client,
\* in ORDER BY name, whose normalized_name is the normalized mention.
ExactMatches(candidates, normalized_input) ==
    {i \in 1 .. Len(candidates) :
        candidates[i].normalized_name = normalized_input}

Min(S) == CHOOSE x \in S : \A y \in S : x <= y

fuzzy_match_client(name, rows, config) ==
    LET candidates == get_all_clients(rows)
        normalized_input == normalize_text(Chars(name))
        exact == ExactMatches(candidates, normalized_input)
        all_names == AllNames(candidates)
        matches == extract(normalized_input,
                           [i \in 1 .. Len(all_names) |-> all_names[i].norm],
                           config.max_candidates)
    IN
    IF candidates = <<>>
    THEN [found |-> FALSE, confidence |-> 0, action |-> "create"]
    ELSE IF exact # {}
    THEN [found |-> TRUE,
          client_id |-> candidates[Min(exact)].id,
          client_name |-> candidates[Min(exact)].name,
          confidence |-> 100,
          action |-> "auto"]
    ELSE IF matches = <<>> \/ BelowConfirm(matches[1].score, config)
    THEN [found |-> FALSE,
          confidence |-> IF matches = <<>> THEN 0 ELSE matches[1].score,
          action |-> "create"]
    ELSE LET confidence == matches[1].score
             client_id == FirstNamed(all_names, matches[1].choice).id
             client_name == NameOfId(candidates, client_id)
             candidates_list ==
                 [k \in 1 .. Len(matches) |->
                    LET id == FirstNamed(all_names, matches[k].choice).id
                    IN [id |-> id, name |-> NameOfId(candidates, id),
                        confidence |-> matches[k].score]]
         IN IF IsAuto(confidence, config)
            THEN [found |-> TRUE, client_id |-> client_id,
                  client_name |-> client_name, confidence |-> confidence,
                  action |-> "auto"]
            ELSE [found |-> TRUE, client_id |-> client_id,
                  client_name |-> client_name, confidence |-> confidence,
                  action |-> "confirm", candidates |-> candidates_list]

\* A call of _fuzzy_match_client on the registry as it stands.
Resolve ==
    /\ \E m \in MentionTokens :
          /\ mention' = m
          /\ match' = fuzzy_match_client(m, clients, cfg)
    /\ UNCHANGED cfg
    /\ UNCHANGED outsideResolver

InitResolver ==
    /\ cfg \in ClientMatchConfigs
    /\ mention = ""
    /\ match = NoMatch

ParkedResolver ==
    /\ cfg = [auto |-> 85, confirm |-> 60, max_candidates |-> 1]
    /\ mention = ""
    /\ match = NoMatch

NextClients ==
    \/ CreateClient
    \/ UpdateClient
    \/ DeleteClient
    \/ Resolve

(***************************************************************************)
(*        IntentParser.parse: intent, priority and client of a text        *)
(***************************************************************************)

\* The texts users send, each a sequence of words: commands with and without
\* a client mention and a priority keyword.  A text is also a reply to the
\* category question: the one with "cliente" names a category, the others
\* name none.
Texts ==
    { <<"crear", "tarea", "urgente">>,
      <<"crear", "nota", "importante">>,
      <<"crear", "tarea", "cliente", "AB">>,
      <<"listar", "tareas">> }

\* The characters of a text: its words joined by single spaces.
RECURSIVE TextChars(_)
TextChars(t) ==
    IF t = <<>> THEN <<>>
    ELSE Chars(t[1])
            \o (IF Len(t) = 1 THEN <<>> ELSE <<" ">> \o TextChars(Tail(t)))

\* Python's `needle in hay`, and re.search of a literal.
Contains(hay, needle) ==
    \E i \in 0 .. (Len(hay) - Len(needle)) :
        SubSeq(hay, i + 1, i + Len(needle)) = needle

\* str.lower() of a string
LowerAll(s) == [i \in 1 .. Len(s) |-> Lower(s[i])]

\* INTENT_PATTERNS in its declared order; each pattern is an alternation of
\* literals, here the set of its alternatives, each as its characters.
INTENT_PATTERNS ==
    LET table ==
        << [intent |-> "CREAR",
            patterns |-> <<{"crear", "nueva", "añadir", "agregar", "poner", "hacer", "tengo que", "necesito"},
                          {"tarea", "recordatorio", "nota", "evento", "cosa"}>>],
           [intent |-> "LISTAR",
            patterns |-> <<{"listar", "mostrar", "ver", "dame", "muéstrame", "qué", "cuáles"},
                          {"tareas", "pendientes", "cosas", "recordatorios"}>>],
           [intent |-> "CERRAR",
            patterns |-> <<{"cerrar", "completar", "terminar", "hecho", "realizado", "finalizar", "marcar como hecha", "da por hecha"},
                          {"tarea", "tareas", "cosa", "cosas"}>>],
           [intent |-> "REPROGRAMAR",
            patterns |-> <<{"reprogramar", "cambiar fecha", "mover", "posponer", "aplazar", "cambiar a"}>>],
           [intent |-> "CAMBIAR_PRIORIDAD",
            patterns |-> <<{"cambiar prioridad", "prioridad", "urgente", "importante", "normal", "baja"}>>] >>
    IN [i \in DOMAIN table |->
          [table[i] EXCEPT !.patterns =
              [k \in DOMAIN @ |-> {Chars(alt) : alt \in @[k]}]]]

\* IntentParser._detect_intent: the first intent all of whose patterns are
\* found in the text, CREAR when there is none.
detect_intentMutant(text) ==
    LET text_lower == LowerAll(text)
        Matches(p) == \E alt \in p : Contains(text_lower, alt)
        full == {i \in 1 .. Len(INTENT_PATTERNS) :
                    \A k \in 1 .. Len(INTENT_PATTERNS[i].patterns) :
                        Matches(INTENT_PATTERNS[i].patterns[k])}
    IN IF full = {} THEN "CREAR"
       ELSE INTENT_PATTERNS[CHOOSE i \in full : \A j \in full : j <= i].intent
detect_intent(text) ==
    LET text_lower == LowerAll(text)
        Matches(p) == \E alt \in p : Contains(text_lower, alt)
        full == {i \in 1 .. Len(INTENT_PATTERNS) :
                    \A k \in 1 .. Len(INTENT_PATTERNS[i].patterns) :
                        Matches(INTENT_PATTERNS[i].patterns[k])}
    IN IF full = {} THEN "CREAR" ELSE INTENT_PATTERNS[Min(full)].intent

\* PRIORITY_MAP in its declared order (the key 'sin prisa', written twice,
\* is one entry of the dict).
PRIORITY_MAP ==
    LET table ==
        << [keyword |-> "urgente", priority |-> "urgent"],
           [keyword |-> "urgent", priority |-> "urgent"],
           [keyword |-> "alta", priority |-> "high"],
           [keyword |-> "high", priority |-> "high"],
           [keyword |-> "importante", priority |-> "high"],
           [keyword |-> "normal", priority |-> "normal"],
           [keyword |-> "media", priority |-> "normal"],
           [keyword |-> "baja", priority |-> "low"],
           [keyword |-> "low", priority |-> "low"],
           [keyword |-> "sin prisa", priority |-> "low"] >>
    IN [i \in DOMAIN table |-> [table[i] EXCEPT !.keyword = Chars(@)]]

\* IntentParser._extract_priority: the priority of the first keyword of
\* PRIORITY_MAP found in the text, 'normal' when there is none.
extract_priorityMutant(text) ==
    LET text_lower == LowerAll(text)
        hits == {i \in 1 .. Len(PRIORITY_MAP) :
                    Contains(text_lower, PRIORITY_MAP[i].keyword)}
    IN IF hits = {} THEN "normal"
       ELSE PRIORITY_MAP[CHOOSE i \in hits : \A j \in hits : j <= i].priority
extract_priority(text) ==
    LET text_lower == LowerAll(text)
        hits == {i \in 1 .. Len(PRIORITY_MAP) :
                    Contains(text_lower, PRIORITY_MAP[i].keyword)}
    IN IF hits = {} THEN "normal" ELSE PRIORITY_MAP[Min(hits)].priority

\* utils.extract_client_mentions: the names that follow the word "cliente".
extract_client_mentions(t) ==
    LET at == {i \in 1 .. Len(t) - 1 : t[i] = "cliente"}
    IN IF at = {} THEN <<>> ELSE <<t[Min(at) + 1]>>

NoClientInfo == [raw |-> None, match |-> NoMatch]

\* IntentParser._extract_client: the first mention and its match.
extract_client(t, rows, config) ==
    LET mentions == extract_client_mentions(t)
    IN IF mentions = <<>> THEN NoClientInfo
       ELSE [raw |-> mentions[1],
             match |-> fuzzy_match_client(mentions[1], rows, config)]

\* What parse computes from the text alone, for every text of the model.
ParsedTexts ==
    [t \in Texts |->
        LET text_normalized == normalize_text(TextChars(t))
        IN [intent |-> detect_intent(text_normalized),
            priority |-> extract_priority(text_normalized)]]

\* IntentParser.parse
parse(t, rows, config) ==
    [intent |-> ParsedTexts[t].intent,
     client |-> extract_client(t, rows, config),
     priority |-> ParsedTexts[t].priority,
     original_text |-> t]

\* category_map of _handle_category_response in its declared order.
category_map ==
    LET table ==
        << [key |-> "administracion", category |-> "administracion"],
           [key |-> "administración", category |-> "administracion"],
           [key |-> "admin", category |-> "administracion"],
           [key |-> "averias", category |-> "averias"],
           [key |-> "averías", category |-> "averias"],
           [key |-> "averia", category |-> "averias"],
           [key |-> "avería", category |-> "averias"],
           [key |-> "clientes", category |-> "clientes"],
           [key |-> "cliente", category |-> "clientes"],
           [key |-> "servicios", category |-> "servicios"],
           [key |-> "servicio", category |-> "servicios"] >>
    IN [i \in DOMAIN table |-> [table[i] EXCEPT !.key = Chars(@)]]

NoCategory == "None"

\* _handle_category_response: the category of the first key of category_map
\* found in the reply, none when no key is found.
category_of(t) ==
    LET transcript_lower == Strip(LowerAll(TextChars(t)))
        hits == {i \in 1 .. Len(category_map) :
                    Contains(transcript_lower, category_map[i].key)}
    IN IF hits = {} THEN NoCategory ELSE category_map[Min(hits)].category

\* category_of for every text of the model.
CategoryReplies == [t \in Texts |-> category_of(t)]

(***************************************************************************)
(*      IntentParser.parse on one text: the date and the title too         *)
(***************************************************************************)

\* A date is counted in days from today; NoDate is None.
NoDate == [found |-> FALSE, days |-> 0, hour |-> 0, minute |-> 0]
DateAt(days, hour) == [found |-> TRUE, days |-> days, hour |-> hour, minute |-> 0]

\* DATE_PATTERNS in its declared order: the relative days, set to 00:00, and
\* the weekdays, resolved by _next_weekday.
DATE_PATTERNS ==
    LET table ==
        << [key |-> "hoy", days |-> 0, weekday |-> -1],
           [key |-> "mañana", days |-> 1, weekday |-> -1],
           [key |-> "pasado mañana", days |-> 2, weekday |-> -1],
           [key |-> "esta semana", days |-> 0, weekday |-> -1],
           [key |-> "próxima semana", days |-> 7, weekday |-> -1],
           [key |-> "el lunes", days |-> 0, weekday |-> 0],
           [key |-> "el martes", days |-> 0, weekday |-> 1],
           [key |-> "el miércoles", days |-> 0, weekday |-> 2],
           [key |-> "el jueves", days |-> 0, weekday |-> 3],
           [key |-> "el viernes", days |-> 0, weekday |-> 4],
           [key |-> "el sábado", days |-> 0, weekday |-> 5],
           [key |-> "el domingo", days |-> 0, weekday |-> 6] >>
    IN [i \in DOMAIN table |-> [table[i] EXCEPT !.key = Chars(@)]]

\* _next_weekday(weekday) when today is the weekday `today`.
next_weekdayMutant(weekday, today) ==
    LET days_ahead == weekday - today
    IN DateAt(IF days_ahead < 0 THEN days_ahead + 7 ELSE days_ahead, 9)
next_weekday(weekday, today) ==
    LET days_ahead == weekday - today
    IN DateAt(IF days_ahead <= 0 THEN days_ahead + 7 ELSE days_ahead, 9)

\* What dateparser.parse may return for a text without a relative pattern:
\* nothing, a date at midnight or a date with a time.
DateparserResults == {NoDate, DateAt(3, 0), DateAt(3, 17)}

\* IntentParser._extract_date: the first key of DATE_PATTERNS found in the
\* lowercased text decides; else dateparser, midnight moved to 09:00.
extract_date(text, today, parsed_date) ==
    LET text_lower == LowerAll(text)
        hits == {i \in 1 .. Len(DATE_PATTERNS) :
                    Contains(text_lower, DATE_PATTERNS[i].key)}
        first == DATE_PATTERNS[Min(hits)]
    IN IF hits # {}
       THEN IF first.weekday < 0 THEN DateAt(first.days, 0)
            ELSE next_weekday(first.weekday, today)
       ELSE IF parsed_date.found /\ parsed_date.hour = 0
                                /\ parsed_date.minute = 0
       THEN [parsed_date EXCEPT !.hour = 9]
       ELSE parsed_date

\* re.IGNORECASE match of the literal lit at position i of s.
MatchAt(s, i, lit) ==
    /\ i + Len(lit) - 1 <= Len(s)
    /\ \A k \in 1 .. Len(lit) : Lower(s[i + k - 1]) = Lower(lit[k])

\* \b between s[i-1] and s[i]: a word character on exactly one side.
Boundary(s, i) ==
    (i > 1 /\ s[i - 1] # " ") # (i <= Len(s) /\ s[i] # " ")

\* re.sub(pattern, '', s): ends[i] is the position after the match that
\* starts at i, 0 when there is none; the matches are taken from the left
\* and do not overlap.
Cut(s, ends) ==
    LET cut[i \in 1 .. Len(s) + 1] ==
            IF i > Len(s) THEN <<>>
            ELSE IF ends[i] > 0 THEN cut[ends[i]]
            ELSE <<s[i]>> \o cut[i + 1]
    IN cut[1]

\* re.sub of an alternation of literals.  In every pattern of the tables an
\* alternative that is a prefix of another one is written before it, so the
\* alternative taken at a position is the shortest that matches.  (The
\* string is named by a bound variable, so that its value is computed once.)
ReSub(s, alts) ==
    CHOOSE r \in
        {Cut(x, [i \in 1 .. Len(x) |->
                    LET lens == {Len(a) : a \in {b \in alts : MatchAt(x, i, b)}}
                    IN IF lens = {} THEN 0 ELSE i + Min(lens)]) : x \in {s}} :
        TRUE

\* re.sub(rf'\b{keyword}\b', '', s)
ReSubWord(s, lit) ==
    CHOOSE r \in
        {Cut(x, [i \in 1 .. Len(x) |->
                    IF /\ Boundary(x, i) /\ MatchAt(x, i, lit)
                       /\ Boundary(x, i + Len(lit))
                    THEN i + Len(lit) ELSE 0]) : x \in {s}} :
        TRUE

\* The position after the match of (?:cliente|del cliente|para el
\* cliente)\s+{client_word}\b that starts at i with the alternative alt, 0
\* when there is none.
MentionEnd(x, i, alt, client_word) ==
    LET j == i + Len(alt)
        k == Min({n \in j .. Len(x) + 1 : n > Len(x) \/ x[n] # " "})
    IN IF /\ MatchAt(x, i, alt) /\ k > j
          /\ MatchAt(x, k, client_word)
          /\ Boundary(x, k + Len(client_word))
       THEN k + Len(client_word) ELSE 0

\* re.sub(rf'\b(?:cliente|del cliente|para el cliente)\s+{mention}\b', '', s)
ReSubMention(s, client_word) ==
    LET heads == {Chars("cliente"), Chars("del cliente"),
                  Chars("para el cliente")}
    IN CHOOSE r \in
        {Cut(x, [i \in 1 .. Len(x) |->
                    LET e == {MentionEnd(x, i, alt, client_word) :
                                 alt \in heads} \ {0}
                    IN IF Boundary(x, i) /\ e # {} THEN Min(e) ELSE 0]) :
         x \in {s}} :
        TRUE

\* utils.extract_client_mentions on a string: the word that follows the
\* first word "cliente".
MentionsIn(s) ==
    CHOOSE r \in
        {LET starts == {i \in 1 .. Len(x) :
                           x[i] # " " /\ (i = 1 \/ x[i - 1] = " ")}
             WordAt(i) ==
                 SubSeq(x, i, Min({j \in i .. Len(x) :
                                      j = Len(x) \/ x[j + 1] = " "}))
             at == {i \in starts : LowerAll(WordAt(i)) = Chars("cliente")}
             following == {i \in starts : at # {} /\ i > Min(at)}
         IN IF following = {} THEN <<>> ELSE <<WordAt(Min(following))>> :
         x \in {s}} :
        TRUE

\* The patterns of INTENT_PATTERNS in the order _extract_title removes them.
IntentFragments ==
    <<INTENT_PATTERNS[1].patterns[1], INTENT_PATTERNS[1].patterns[2],
      INTENT_PATTERNS[2].patterns[1], INTENT_PATTERNS[2].patterns[2],
      INTENT_PATTERNS[3].patterns[1], INTENT_PATTERNS[3].patterns[2],
      INTENT_PATTERNS[4].patterns[1], INTENT_PATTERNS[5].patterns[1]>>

RECURSIVE StripIntents(_, _)
StripIntents(s, k) ==
    IF k > Len(IntentFragments) THEN s
    ELSE StripIntents(ReSub(s, IntentFragments[k]), k + 1)

RECURSIVE StripPriorities(_, _)
StripPriorities(s, k) ==
    IF k > Len(PRIORITY_MAP) THEN s
    ELSE StripPriorities(ReSubWord(s, PRIORITY_MAP[k].keyword), k + 1)

\* The mentions found in the text removed with the word that introduces
\* them.
StripMentions(s) ==
    CHOOSE r \in
        {IF MentionsIn(x) = <<>> THEN x
         ELSE ReSubMention(x, MentionsIn(x)[1]) : x \in {s}} :
        TRUE

\* IntentParser._extract_title (the intent argument is not used).
extract_title(text) ==
    CHOOSE title \in
        {LET text_clean == IF Len(cleaned) < 5 THEN text ELSE cleaned
         IN SubSeq(text_clean, 1,
                   IF Len(text_clean) < 200 THEN Len(text_clean) ELSE 200) :
         cleaned \in
            {Strip(CollapseSpaces(
                StripPriorities(StripMentions(StripIntents(text, 1)), 1)))}} :
        TRUE

\* The texts given to parse: the end-to-end command, commands with dates and
\* with several priority or intent keywords, and the weekday names.
ParserTexts ==
    { <<"crear", "tarea", "llamar", "al", "cliente", "Acme", "urgente", "mañana">>,
      <<"tengo", "urgente", "que", "pagar", "facturas">>,
      <<"crear", "tarea", "urgente">>,
      <<"pagar", "facturas", "mañana">>,
      <<"pagar", "facturas", "pasado mañana">>,
      <<"pagar", "facturas", "próxima semana">>,
      <<"pagar", "facturas">>,
      <<"pagar", "baja", "urgente">>,
      <<"pagar", "baja">>,
      <<"cerrar", "facturas">>,
      <<"hacer", "ver", "tareas">>,
      <<"cerrar", "tarea">>,
      <<"ver", "tareas", "pendientes">>,
      <<"el lunes">>, <<"el martes">>, <<"el miércoles">>, <<"el jueves">>,
      <<"el viernes">>, <<"el sábado">>, <<"el domingo">> }

NotParsed == [done |-> FALSE]

\* The registry of the parsed commands: the client Acme.
ParserRegistry ==
    {[id |-> 1, name |-> "Acme", normalized_name |-> NormalizedOf("Acme"),
      aliases |-> <<>>]}

\* IntentParser.parse(text), with what dateparser returns as an input.
Parse ==
    /\ pOut = NotParsed
    /\ \E parsed_date \in DateparserResults, text \in {TextChars(pText)} :
          \E text_normalized \in {normalize_text(text)} :
             pOut' = [done |-> TRUE,
                      intent |-> detect_intent(text_normalized),
                      client |-> extract_client(pText, clients, cfg),
                      date |-> extract_date(text, pToday, parsed_date),
                      priority |-> extract_priority(text_normalized),
                      title |-> extract_title(text)]
    /\ UNCHANGED <<pText, pToday, pTitle2, outsideParser>>

\* _extract_title run again on the title parse returned.
ExtractTitleAgain ==
    /\ pOut # NotParsed
    /\ pTitle2 = NotParsed
    /\ \E text \in {pOut.title} :
          pTitle2' = [done |-> TRUE, title |-> extract_title(text)]
    /\ UNCHANGED <<pText, pToday, pOut, outsideParser>>

InitParser ==
    /\ pText \in ParserTexts
    /\ pToday \in 0 .. 6
    /\ pOut = NotParsed
    /\ pTitle2 = NotParsed

ParkedParser ==
    /\ pText = <<>> /\ pToday = 0 /\ pOut = NotParsed /\ pTitle2 = NotParsed

NextParser ==
    \/ Parse
    \/ ExtractTitleAgain

(***************************************************************************)
(*            The task store (tables tasks and task_images)                *)
(***************************************************************************)

\* Bounds of the task-store model.
NumUsers == 2
MaxTasks == 2
MaxImages == 2

Users == 1 .. NumUsers

\* CHECK(status IN ('open', 'completed', 'cancelled'))
StatusValues == {"open", "completed", "cancelled"}

\* CHECK(priority IN ('normal', 'urgent'))
PriorityValues == {"normal", "urgent"}

\* Where an image row's file_path points: nowhere (NULL), a local file, or
\* a remote path under /images/tasks/ on the SFTP server.
PathKinds == {"null", "local", "remote"}

NoTaskOp == [op |-> "none", id |-> NoId, raised |-> NoError, locks |-> 0]

\* The operations of the task tables that run their statement through
\* _execute_with_retry; delete_task and complete_task's own statements, like
\* every client and category operation, use a connection directly.
RetryWrapped ==
    {"create_task", "update_task", "add_image_to_task", "delete_task_image"}

\* How many consecutive 'database is locked' errors an operation meets: none,
\* a single transient one, or one on every attempt of the retry loop.
LockInputs == {0, 1, DefaultMaxRetries}

\* Whether the lock errors reach the caller: the retry loop absorbs fewer
\* than max_retries of them, a direct statement none.
SurfacesLock(op, locks) ==
    IF op \in RetryWrapped THEN locks >= DefaultMaxRetries ELSE locks >= 1

\* The outcome the operations record.
TaskOp(op, id, raised, locks) ==
    [op |-> op, id |-> id, raised |-> raised, locks |-> locks]

\* The CHECK constraints of table tasks on an inserted row.
ChecksPass(priority, status) ==
    priority \in PriorityValues /\ status \in StatusValues

\* Database.create_task: INSERT INTO tasks through _execute_with_retry.  A
\* CHECK failure is sqlite3.IntegrityError, which the retry loop re-raises;
\* lock errors on every attempt end in the lock error.
create_task(user_id, priority, client_id, client_name_raw, category, locks) ==
    /\ nextTaskId <= MaxTasks
    /\ IF SurfacesLock("create_task", locks)
       THEN /\ tLast' = TaskOp("create_task", NoId, "locked", locks)
            /\ UNCHANGED <<tasks, nextTaskId>>
       ELSE IF ~ChecksPass(priority, "open")
       THEN /\ tLast' = TaskOp("create_task", NoId, "IntegrityError", locks)
            /\ UNCHANGED <<tasks, nextTaskId>>
       ELSE /\ tasks' = tasks \cup
                  {[id |-> nextTaskId, user_id |-> user_id,
                    status |-> "open", priority |-> priority,
                    client_id |-> client_id,
                    client_name_raw |-> client_name_raw,
                    category |-> category, ampliacion |-> <<>>]}
            /\ nextTaskId' = nextTaskId + 1
            /\ tLast' = TaskOp("create_task", nextTaskId, NoError, locks)
    /\ UNCHANGED <<task_images, nextImageId, foreign_keys, blobs>>

\* Database.update_task with one keyword argument: UPDATE tasks SET field = ?
\* through _execute_with_retry; the CHECK constraints apply to the new row.
update_task(task_id, field, value, locks) ==
    LET hit == {t \in tasks : t.id = task_id}
        new == {[t EXCEPT ![field] = value] : t \in hit}
    IN /\ IF SurfacesLock("update_task", locks)
          THEN /\ tLast' = TaskOp("update_task", task_id, "locked", locks)
               /\ UNCHANGED tasks
          ELSE IF \E t \in new : ~ChecksPass(t.priority, t.status)
          THEN /\ tLast' = TaskOp("update_task", task_id, "IntegrityError",
                                  locks)
               /\ UNCHANGED tasks
          ELSE /\ tasks' = (tasks \ hit) \cup new
               /\ tLast' = TaskOp("update_task", task_id, NoError, locks)
       /\ UNCHANGED <<nextTaskId, task_images, nextImageId, foreign_keys>>

\* Database.add_image_to_task: INSERT INTO task_images; the FOREIGN KEY on
\* task_id is checked only when SQLite enforces foreign keys.
add_image_to_task(task_id, kind) ==
    /\ nextImageId <= MaxImages
    /\ IF foreign_keys /\ ~\E t \in tasks : t.id = task_id
       THEN /\ tLast' = TaskOp("add_image_to_task", NoId, "IntegrityError", 0)
            /\ UNCHANGED <<task_images, nextImageId, blobs>>
       ELSE /\ task_images' = task_images \cup
                  {[id |-> nextImageId, task_id |-> task_id,
                    file_path |-> kind]}
            /\ nextImageId' = nextImageId + 1
            /\ blobs' = IF kind = "remote"
                        THEN blobs \cup {nextImageId} ELSE blobs
            /\ tLast' = TaskOp("add_image_to_task", nextImageId, NoError, 0)
    /\ UNCHANGED <<tasks, nextTaskId, foreign_keys>>

\* Database.get_task_images: SELECT * FROM task_images WHERE task_id = ?
get_task_images(task_id) == {i \in task_images : i.task_id = task_id}

\* ON DELETE CASCADE of task_images.task_id: in force only when SQLite
\* enforces foreign keys (PRAGMA foreign_keys, which get_connection never
\* sets, so the library's default decides).
CascadeImages(images, task_id, enforced) ==
    IF enforced THEN {i \in images : i.task_id # task_id} ELSE images

\* The remote blobs of a task's images that a best-effort removal deletes:
\* failed is the set of images whose sftp_storage.delete_image raised (the
\* error is logged).
RemoveBlobs(task_id, failed) ==
    LET images == get_task_images(task_id)
        remote == {i.id : i \in {j \in images : j.file_path = "remote"}}
    IN blobs \ (remote \ failed)

\* Database.delete_task: best-effort removal of each image's remote blob,
\* then DELETE FROM tasks WHERE id = ? on a connection of its own, where a
\* lock error is raised to the caller.
delete_task(task_id, failed, locks) ==
    /\ blobs' = RemoveBlobs(task_id, failed)
    /\ IF SurfacesLock("delete_task", locks)
       THEN /\ tLast' = TaskOp("delete_task", task_id, "locked", locks)
            /\ UNCHANGED <<tasks, task_images>>
       ELSE /\ tasks' = {t \in tasks : t.id # task_id}
            /\ task_images' =
                  CascadeImages(task_images, task_id, foreign_keys)
            /\ tLast' = TaskOp("delete_task", task_id, NoError, locks)
    /\ UNCHANGED <<nextTaskId, nextImageId, foreign_keys>>

\* Database.complete_task: update_task(status='completed'), then on success
\* the best-effort removal of the images' remote blobs.
complete_task(task_id, failed, locks) ==
    /\ update_task(task_id, "status", "completed", locks)
    /\ blobs' = IF tLast'.raised = NoError
                THEN RemoveBlobs(task_id, failed) ELSE blobs

\* The store operations as the admin pages and the bot call them; the store
\* never looks at the user of a task, so one user makes them all.
CreateTask ==
    /\ \E u \in {1}, p \in PriorityValues, locks \in LockInputs :
       \E c \in {[id |-> NoId, raw |-> None]} \cup
                 {[id |-> k.id, raw |-> k.name] : k \in clients} :
          create_task(u, p, c.id, c.raw, "administracion", locks)
    /\ UNCHANGED outsideStore

AddImage ==
    /\ \E id \in 1 .. MaxTasks, kind \in PathKinds :
          add_image_to_task(id, kind)
    /\ UNCHANGED outsideStore

DeleteTask ==
    /\ \E t \in tasks, failed \in SUBSET (1 .. MaxImages),
          locks \in LockInputs :
          /\ failed \subseteq {i.id : i \in get_task_images(t.id)}
          /\ delete_task(t.id, failed, locks)
    /\ UNCHANGED outsideStore

\* The names of default_categories, the rows init_db puts in table categories.
default_categories ==
    {"ideas", "incidencias", "reclamaciones", "presupuestos", "visitas",
     "administracion", "en_espera", "delegado", "llamar", "personal"}

\* The values the admin page's update request carries for a field.
UpdateInputs ==
    [status |-> StatusValues \cup {"archived"},
     priority |-> PriorityValues \cup {"high"},
     category |-> {"otra"}]

\* app.update_task: db.update_task(task_id, **data) for an existing task,
\* with the request's JSON as the keyword arguments.
UpdateTask ==
    /\ \E t \in tasks, field \in DOMAIN UpdateInputs :
       \E value \in UpdateInputs[field], locks \in LockInputs :
          update_task(t.id, field, value, locks)
    /\ UNCHANGED blobs
    /\ UNCHANGED outsideStore

\* app.complete_task, and the bot's confirm_close_task: db.complete_task.
CompleteTask ==
    /\ \E t \in tasks, failed \in SUBSET (1 .. MaxImages),
          locks \in LockInputs :
          /\ failed \subseteq {i.id : i \in get_task_images(t.id)}
          /\ complete_task(t.id, failed, locks)
    /\ UNCHANGED outsideStore

InitStore ==
    /\ tasks = {}
    /\ nextTaskId = 1
    /\ task_images = {}
    /\ nextImageId = 1
    /\ foreign_keys \in BOOLEAN
    /\ blobs = {}
    /\ tLast = NoTaskOp

ParkedStore ==
    /\ tasks = {} /\ nextTaskId = 1 /\ task_images = {} /\ nextImageId = 1
    /\ foreign_keys = FALSE /\ blobs = {} /\ tLast = NoTaskOp

NextStore ==
    \/ CreateTask
    \/ AddImage
    \/ DeleteTask

\* The operations on the fields of the tasks and on the clients they name.
NextTaskFields ==
    \/ CreateTask
    \/ UpdateTask
    \/ CompleteTask
    \/ DeleteClient

(***************************************************************************)
(*   Database.delete_task and Database.complete_task, one call step by     *)
(*   step: the connections they open and their calls to the SFTP server    *)
(***************************************************************************)

CallOps == {"delete_task", "complete_task"}

InitCalls ==
    /\ oOp \in CallOps
    /\ oPc = "start"
    /\ oConn = FALSE
    /\ oNet = FALSE
    /\ oLeft \in 0 .. MaxImages

ParkedCalls ==
    /\ oOp = "none" /\ oPc = "parked" /\ oConn = FALSE /\ oNet = FALSE
    /\ oLeft = 0

\* get_task_images: conn = self.get_connection()
CallOpenImages ==
    /\ oPc = "start"
    /\ oPc' = "images"
    /\ oConn' = TRUE
    /\ UNCHANGED <<oOp, oNet, oLeft, retryVars, outsideCalls>>

\* get_task_images: the SELECT, fetchall and conn.close(); the close is not
\* in a finally clause, so an exception of the SELECT leaves the connection
\* open and ends the operation.
CallReadImagesMutant ==
    /\ oPc = "images"
    /\ \E raised \in BOOLEAN :
          IF raised
          THEN oPc' = "raised" /\ UNCHANGED oConn
          ELSE /\ oPc' = IF oOp = "delete_task" THEN "remote" ELSE "update"
               /\ UNCHANGED oConn
    /\ UNCHANGED <<oOp, oNet, oLeft, retryVars, outsideCalls>>
CallReadImages ==
    /\ oPc = "images"
    /\ \E raised \in BOOLEAN :
          IF raised
          THEN oPc' = "raised" /\ UNCHANGED oConn
          ELSE /\ oPc' = IF oOp = "delete_task" THEN "remote" ELSE "update"
               /\ oConn' = FALSE
    /\ UNCHANGED <<oOp, oNet, oLeft, retryVars, outsideCalls>>

\* complete_task: self.update_task(task_id, status='completed') enters
\* _execute_with_retry with its default arguments.
CallUpdate ==
    /\ oPc = "update"
    /\ oPc' = "updating"
    /\ rPc' = "loop"
    /\ rMax' = DefaultMaxRetries
    /\ rDelay' = DefaultDelay
    /\ UNCHANGED <<oOp, oConn, oNet, oLeft, rAttempt, rConn, rHist, rSlept,
                   rSleeps, rRaised, rResult, rOpResult, rTxn, rApplied,
                   outsideCalls>>

\* complete_task after update_task: its exception ends the operation; its
\* result is success, and without success or without images the operation
\* returns.
CallUpdated ==
    /\ oPc = "updating"
    /\ rPc \in {"returned", "raised"}
    /\ \E success \in BOOLEAN :
          oPc' = IF rPc = "raised" THEN "raised"
                 ELSE IF success THEN "remote" ELSE "returned"
    /\ UNCHANGED <<oOp, oConn, oNet, oLeft, retryVars, outsideCalls>>

\* sftp_storage.delete_image(file_path) begins: the SFTP connection and the
\* remove.
CallRemoteBegin ==
    /\ oPc = "remote"
    /\ oLeft > 0
    /\ ~oNet
    /\ oNet' = TRUE
    /\ UNCHANGED <<oOp, oPc, oConn, oLeft, retryVars, outsideCalls>>

\* sftp_storage.delete_image ends; its result is not used and its exception
\* is logged.
CallRemoteEnd ==
    /\ oNet
    /\ oNet' = FALSE
    /\ oLeft' = oLeft - 1
    /\ UNCHANGED <<oOp, oPc, oConn, retryVars, outsideCalls>>

\* After the last image: complete_task returns; delete_task opens the
\* connection of its DELETE.
CallRemoteDone ==
    /\ oPc = "remote"
    /\ oLeft = 0
    /\ ~oNet
    /\ IF oOp = "delete_task"
       THEN oPc' = "deleting" /\ oConn' = TRUE
       ELSE oPc' = "returned" /\ UNCHANGED oConn
    /\ UNCHANGED <<oOp, oNet, oLeft, retryVars, outsideCalls>>

\* delete_task: the DELETE, conn.commit() and conn.close(); an exception of
\* the DELETE or of the commit leaves the connection open.
CallDelete ==
    /\ oPc = "deleting"
    /\ \E raised \in BOOLEAN :
          IF raised
          THEN oPc' = "raised" /\ UNCHANGED oConn
          ELSE oPc' = "returned" /\ oConn' = FALSE
    /\ UNCHANGED <<oOp, oNet, oLeft, retryVars, outsideCalls>>

\* The loop of _execute_with_retry cannot run out with the default
\* max_retries, so RetryExhausted is no step of these calls.
NextCalls ==
    \/ CallOpenImages
    \/ CallReadImages
    \/ CallUpdate
    \/ RetryGetConnection
    \/ RetryOperation
    \/ RetryCommit
    \/ RetryWake
    \/ CallUpdated
    \/ CallRemoteBegin
    \/ CallRemoteEnd
    \/ CallRemoteDone
    \/ CallDelete

(***************************************************************************)
(*        TelegramBotHandler: the two-phase creation of a task             *)
(***************************************************************************)

\* Bounds of the conversation model: the category selections counted per
\* user, and the client questions one user has open at a time.
MaxSelections == 2
MaxPrompts == 1

\* The categories of the four buttons of _ask_category.
Categories == {"administracion", "averias", "clientes", "servicios"}

\* user_states.get(user.id) is None
NoState == [action |-> "none"]

\* The entry the handlers store before they ask for the category.
WaitingCategory(parsed, client_id, client_name_raw) ==
    [action |-> "waiting_category",
     original_text |-> parsed.original_text,
     priority |-> parsed.priority,
     client_id |-> client_id,
     client_name_raw |-> client_name_raw]

storeUntouched ==
    UNCHANGED <<tasks, nextTaskId, task_images, nextImageId, foreign_keys,
                blobs, tLast>>

\* _ask_client_confirmation: one button per candidate, and a button that
\* creates the client client_match.get('raw', ''), a key the match never
\* has.
ask_client_confirmation(u, client_match, parsed) ==
    prompts' = [prompts EXCEPT ![u] = @ \cup
        {[kind |-> "confirm",
          ids |-> {client_match.candidates[k].id :
                       k \in 1 .. Len(client_match.candidates)},
          name |-> "",
          original_text |-> parsed.original_text]}]

\* _offer_create_client: a button that creates the mentioned client and one
\* that goes on without a client.
offer_create_client(u, client_name, parsed) ==
    prompts' = [prompts EXCEPT ![u] = @ \cup
        {[kind |-> "offer", ids |-> {}, name |-> client_name,
          original_text |-> parsed.original_text]}]

\* _handle_create_task: a client question when the mention needs one, else
\* the state 'waiting_category' and the category question; no task row yet.
handle_create_taskMutant(u, parsed) ==
    /\ create_task(u, parsed.priority, NoId, parsed.client.raw, NoCategory,
                   0)
    /\ UNCHANGED <<user_states, prompts, pendingNew, selections, clientVars>>
handle_create_task(u, parsed) ==
    LET client_info == parsed.client
        action == IF client_info.raw = None THEN "none"
                  ELSE client_info.match.action
    IN /\ IF action = "confirm"
          THEN /\ Cardinality(prompts[u]) < MaxPrompts
               /\ ask_client_confirmation(u, client_info.match, parsed)
               /\ UNCHANGED user_states
          ELSE IF action = "create"
          THEN /\ Cardinality(prompts[u]) < MaxPrompts
               /\ offer_create_client(u, client_info.raw, parsed)
               /\ UNCHANGED user_states
          ELSE /\ user_states' = [user_states EXCEPT ![u] =
                      WaitingCategory(parsed,
                          IF action = "auto"
                          THEN client_info.match.client_id ELSE NoId,
                          client_info.raw)]
               /\ UNCHANGED prompts
       /\ storeUntouched
       /\ UNCHANGED <<pendingNew, selections, clientVars>>

\* _create_task_with_category: db.create_task, then the user's entry is
\* deleted; an exception of create_task leaves the entry in place.
create_task_with_categoryMutant(u, category, user_state) ==
    /\ selections[u] < MaxSelections
    /\ \E locks \in {0, DefaultMaxRetries} :
          create_task(u, user_state.priority, user_state.client_id,
                      user_state.client_name_raw, category, locks)
    /\ user_states' = IF tLast'.raised = NoError
                      THEN [v \in Users |-> NoState]
                      ELSE user_states
    /\ selections' = [selections EXCEPT ![u] = @ + 1]
    /\ UNCHANGED <<prompts, pendingNew, clientVars>>
create_task_with_category(u, category, user_state) ==
    /\ selections[u] < MaxSelections
    /\ \E locks \in {0, DefaultMaxRetries} :
          create_task(u, user_state.priority, user_state.client_id,
                      user_state.client_name_raw, category, locks)
    /\ user_states' = IF tLast'.raised = NoError
                      THEN [user_states EXCEPT ![u] = NoState]
                      ELSE user_states
    /\ selections' = [selections EXCEPT ![u] = @ + 1]
    /\ UNCHANGED <<prompts, pendingNew, clientVars>>

\* _handle_intent: only CREAR changes what the handlers remember.
handle_intent(u, parsed) ==
    IF parsed.intent = "CREAR"
    THEN handle_create_task(u, parsed)
    ELSE UNCHANGED <<botVars, clientVars>> /\ storeUntouched

\* The replies lastReply records.  Nothing yet; "No entendí la categoría"
\* followed by the category question; a failure reported with a fixed text;
\* a failure reported with str(e) of the exception in the text.
NoReply == [kind |-> "none", detail |-> "none"]
AskCategoryAgain == [kind |-> "guidance", detail |-> "none"]
FixedError == [kind |-> "error", detail |-> "none"]
RelayedError(e) == [kind |-> "error", detail |-> e]

\* _handle_category_response: a reply that names no category asks again.
handle_category_responseMutant(u, t) ==
    LET user_state == user_states[u]
        category == CategoryReplies[t]
    IN IF category = NoCategory
       THEN handle_intent(u, parse(t, clients, cfg))
       ELSE create_task_with_category(u, category, user_state)
handle_category_response(u, t) ==
    LET user_state == user_states[u]
        category == CategoryReplies[t]
    IN IF category = NoCategory
       THEN UNCHANGED <<botVars, clientVars>> /\ storeUntouched
       ELSE create_task_with_category(u, category, user_state)

\* handle_text_message, and handle_voice_message from the transcript on: a
\* reply to the category question, or a command (the branch of the state
\* 'ampliar_task' is AmpliarMessage).
Message ==
    /\ \E u \in Users, t \in Texts :
          /\ user_states[u].action # "ampliar_task"
          /\ IF user_states[u].action = "waiting_category"
             THEN handle_category_response(u, t)
             ELSE handle_intent(u, parse(t, clients, cfg))
    /\ UNCHANGED outsideBot

\* The category buttons the model presses.
PressedCategories == {"administracion"}

\* handle_callback_query, 'category': the task is created only for a user
\* who is asked for the category.
CategoryCallback ==
    /\ \E u \in Users, category \in PressedCategories :
          IF user_states[u].action = "waiting_category"
          THEN create_task_with_category(u, category, user_states[u])
          ELSE UNCHANGED <<botVars, clientVars>> /\ storeUntouched
    /\ UNCHANGED outsideBot

\* handle_callback_query, 'confirm_client': _create_task_with_client.
ConfirmClientCallbackMutant ==
    /\ \E u \in Users :
       \E p \in prompts[u] :
       \E client_id \in p.ids :
          /\ prompts' = [prompts EXCEPT ![u] = @ \ {p}]
          /\ UNCHANGED user_states
    /\ storeUntouched
    /\ UNCHANGED <<pendingNew, selections, clientVars>>
    /\ UNCHANGED outsideBot
ConfirmClientCallback ==
    /\ \E u \in Users :
       \E p \in prompts[u] :
       \E client_id \in p.ids :
          LET parsed == parse(p.original_text, clients, cfg)
          IN /\ user_states' = [user_states EXCEPT ![u] =
                    WaitingCategory(parsed, client_id, None)]
             /\ prompts' = [prompts EXCEPT ![u] = @ \ {p}]
    /\ storeUntouched
    /\ UNCHANGED <<pendingNew, selections, clientVars>>
    /\ UNCHANGED outsideBot

\* handle_callback_query, 'create_client': _create_new_client_and_task up
\* to its first await; a ValueError of create_client ends the call.
CreateClientCallback ==
    /\ \E u \in Users :
       \E p \in prompts[u] :
          /\ create_client(p.name, <<>>)
          /\ prompts' = [prompts EXCEPT ![u] = @ \ {p}]
          /\ pendingNew' =
                IF cLast'.raised = NoError
                THEN pendingNew \cup
                       {[user |-> u, client_id |-> cLast'.id,
                         client_name |-> p.name,
                         original_text |-> p.original_text]}
                ELSE pendingNew
    /\ storeUntouched
    /\ UNCHANGED <<user_states, selections>>
    /\ UNCHANGED outsideBot

\* _create_new_client_and_task after the await: the text is parsed again
\* and the state 'waiting_category' is stored.
NewClientContinue ==
    /\ \E c \in pendingNew :
          LET parsed == parse(c.original_text, clients, cfg)
          IN /\ user_states' = [user_states EXCEPT ![c.user] =
                    WaitingCategory(parsed, c.client_id, c.client_name)]
             /\ pendingNew' = pendingNew \ {c}
    /\ storeUntouched
    /\ UNCHANGED <<prompts, selections, clientVars>>
    /\ UNCHANGED outsideBot

\* handle_callback_query, 'skip_client': _create_task_without_client.
SkipClientCallback ==
    /\ \E u \in Users :
       \E p \in {q \in prompts[u] : q.kind = "offer"} :
          LET parsed == parse(p.original_text, clients, cfg)
          IN /\ user_states' = [user_states EXCEPT ![u] =
                    WaitingCategory(parsed, NoId, None)]
             /\ prompts' = [prompts EXCEPT ![u] = @ \ {p}]
    /\ storeUntouched
    /\ UNCHANGED <<pendingNew, selections, clientVars>>
    /\ UNCHANGED outsideBot

\* The registries the conversations start from: none, or one client that
\* the admin page has registered.
BotRegistries ==
    { {},
      {[id |-> 1, name |-> "abc", normalized_name |-> NormalizedOf("abc"),
        aliases |-> <<>>]} }

\* A registry the admin page has filled before the conversations start.
InitRegistry ==
    /\ clients \in BotRegistries
    /\ nextClientId = Cardinality(clients) + 1
    /\ cLast = NoOp

\* The voice messages the model follows, and the durations it measures.
NumIngests == 2
MaxDuration == 3

voiceVars == <<ingests, temp_files, ffmpeg_runs, wav_audio>>

\* An ingest: where its handler (pc) and its worker (wpc) stand, the
\* duration Telegram reports, what the worker returned (result) or raised
\* (raised), what made it fail (cause), and the reply that ended it.
NoTranscript == [ok |-> FALSE, text |-> <<>>]
NewIngest ==
    [pc |-> "new", wpc |-> "none", duration |-> 0, result |-> NoTranscript,
     cause |-> "none", raised |-> [type |-> "none", msg |-> <<>>],
     reply |-> [kind |-> "none", detail |-> <<>>]]

ParkedVoice ==
    /\ ingests = [r \in 1 .. NumIngests |-> NewIngest]
    /\ temp_files = {}
    /\ ffmpeg_runs = {}
    /\ wav_audio = 0

\* The side-flow handler calls the model follows, each from its start to
\* its end.
NumHandlers == 2
FreeHandler == [pc |-> "free", u |-> 0, task_id |-> NoId]

InitBot ==
    /\ user_states = [u \in Users |-> NoState]
    /\ prompts = [u \in Users |-> {}]
    /\ pendingNew = {}
    /\ selections = [u \in Users |-> 0]
    /\ handlers = [h \in 1 .. NumHandlers |-> FreeHandler]
    /\ lastReply = NoReply
    /\ ParkedVoice
    /\ ParkedParser
    /\ ParkedCalls
    /\ InitRegistry

ParkedBot ==
    /\ user_states = [u \in Users |-> NoState]
    /\ prompts = [u \in Users |-> {}]
    /\ pendingNew = {}
    /\ selections = [u \in Users |-> 0]
    /\ handlers = [h \in 1 .. NumHandlers |-> FreeHandler]
    /\ lastReply = NoReply
    /\ ParkedVoice
    /\ ParkedParser
    /\ ParkedCalls

NextBot ==
    \/ Message
    \/ CategoryCallback
    \/ ConfirmClientCallback
    \/ CreateClientCallback
    \/ NewClientContinue
    \/ SkipClientCallback

(***************************************************************************)
(*   TelegramBotHandler: the side-flows 'ampliar_task' and                 *)
(*   'waiting_task_for_image'                                              *)
(***************************************************************************)

\* The user whose side-flows the model follows.
FlowUsers == {1}

\* handle_text_message outside the state 'ampliar_task' (and
\* handle_voice_message from the transcript on): a reply to the category
\* question, or a command.
handle_text_message(u, t) ==
    /\ user_states[u].action # "ampliar_task"
    /\ IF user_states[u].action = "waiting_category"
       THEN /\ handle_category_response(u, t)
            /\ lastReply' = IF CategoryReplies[t] = NoCategory
                            THEN AskCategoryAgain ELSE lastReply
       ELSE /\ handle_intent(u, parse(t, clients, cfg))
            /\ UNCHANGED lastReply

\* A text message of that user, and the category button.
FlowMessage ==
    /\ \E u \in FlowUsers, t \in Texts : handle_text_message(u, t)
    /\ UNCHANGED <<flowVars, outsideReplies>>

FlowCategoryCallback ==
    /\ \E u \in FlowUsers, category \in PressedCategories :
          /\ user_states[u].action = "waiting_category"
          /\ create_task_with_category(u, category, user_states[u])
    /\ UNCHANGED outsideBot

\* The call that starts next takes the first handler not yet used.
StartHandler(pc, u, task_id) ==
    \E h \in 1 .. NumHandlers :
        /\ handlers[h].pc = "free"
        /\ \A g \in 1 .. h - 1 : handlers[g].pc # "free"
        /\ handlers' = [handlers EXCEPT
                            ![h] = [pc |-> pc, u |-> u, task_id |-> task_id]]

\* handle_callback_query, 'select_task_for_ampliar': the entry is written
\* whatever the user's entry was.
SelectTaskForAmpliar ==
    /\ \E u \in FlowUsers, t \in tasks :
          user_states' = [user_states EXCEPT
              ![u] = [action |-> "ampliar_task", task_id |-> t.id]]
    /\ storeUntouched
    /\ UNCHANGED <<prompts, pendingNew, selections, handlers, voiceVars,
                   outsideFlows>>

\* The texts sent as an amplification.
AmpliarTexts == {<<"crear", "nota", "importante">>}

\* handle_text_message / handle_voice_message in state 'ampliar_task', up to
\* the await of the reply of _add_ampliacion_to_task: the text is appended to
\* the task's ampliacion (an exception of update_task is caught and reported).
AmpliarMessage ==
    /\ \E u \in FlowUsers, text \in AmpliarTexts :
          /\ user_states[u].action = "ampliar_task"
          /\ LET task_id == user_states[u].task_id
                 task == {t \in tasks : t.id = task_id}
             IN /\ StartHandler("ampliar", u, task_id)
                /\ IF task = {}
                   THEN /\ storeUntouched
                        /\ lastReply' = FixedError
                   ELSE /\ \E t \in task, locks \in {0, DefaultMaxRetries} :
                             update_task(task_id, "ampliacion",
                                         Append(t.ampliacion, text), locks)
                        /\ UNCHANGED blobs
                        /\ lastReply' = IF tLast'.raised = NoError
                                        THEN lastReply
                                        ELSE RelayedError(tLast'.raised)
    /\ UNCHANGED <<user_states, prompts, pendingNew, selections, voiceVars,
                   clientVars, outsideReplies>>

\* The same call after the await: del self.user_states[user.id], a KeyError
\* when the entry is no longer there.
AmpliarDone ==
    /\ \E h \in 1 .. NumHandlers :
          /\ handlers[h].pc = "ampliar"
          /\ LET u == handlers[h].u
             IN IF user_states[u] = NoState
                THEN /\ handlers' = [handlers EXCEPT ![h].pc = "KeyError"]
                     /\ UNCHANGED user_states
                ELSE /\ handlers' = [handlers EXCEPT ![h].pc = "done"]
                     /\ user_states' = [user_states EXCEPT ![u] = NoState]
    /\ storeUntouched
    /\ UNCHANGED <<prompts, pendingNew, selections, voiceVars, outsideFlows>>

\* handle_photo_message: no entry has the action 'assign_image_to_task', so
\* _ask_task_for_image runs; with an open task of the user it writes the
\* entry 'waiting_task_for_image', whatever the user's entry was.
Photo ==
    /\ \E u \in FlowUsers :
          /\ \E t \in tasks : t.user_id = u /\ t.status = "open"
          /\ user_states' = [user_states EXCEPT
                 ![u] = [action |-> "waiting_task_for_image",
                         photo_file_id |-> "photo"]]
    /\ storeUntouched
    /\ UNCHANGED <<prompts, pendingNew, selections, handlers, voiceVars,
                   outsideFlows>>

\* handle_callback_query, 'assign_image_to_task', up to the await of
\* get_file in _assign_image_to_task_from_callback.
AssignImageCallback ==
    /\ \E u \in FlowUsers, t \in tasks :
          /\ user_states[u].action = "waiting_task_for_image"
          /\ StartHandler("assign", u, t.id)
    /\ storeUntouched
    /\ UNCHANGED <<user_states, prompts, pendingNew, selections, voiceVars,
                   outsideFlows>>

\* The same call after its awaits: the image row, then del
\* self.user_states[user.id]; every exception, the KeyError of a missing entry
\* included, is reported and the entry is removed if there is one.
AssignImageDone ==
    /\ \E h \in 1 .. NumHandlers, downloaded \in BOOLEAN :
          /\ handlers[h].pc = "assign"
          /\ LET u == handlers[h].u
             IN /\ IF downloaded
                   THEN add_image_to_task(handlers[h].task_id, "local")
                   ELSE storeUntouched
                /\ handlers' = [handlers EXCEPT ![h].pc =
                       IF /\ downloaded
                          /\ tLast'.raised = NoError
                          /\ user_states[u] = NoState
                       THEN "KeyError" ELSE "done"]
                /\ user_states' = [user_states EXCEPT ![u] = NoState]
                /\ lastReply' =
                      IF ~downloaded THEN RelayedError("TelegramError")
                      ELSE IF tLast'.raised # NoError
                      THEN RelayedError(tLast'.raised)
                      ELSE IF user_states[u] = NoState
                      THEN RelayedError("KeyError")
                      ELSE lastReply
    /\ UNCHANGED <<prompts, pendingNew, selections, voiceVars, clientVars,
                   outsideReplies>>

\* The value an update request of the admin page carries for the key
\* 'ampliacion': an empty text.
AmpliacionInputs == {<<>>}

\* app.update_task with the key 'ampliacion' in the request's JSON:
\* db.update_task(task_id, ampliacion=value), 'ampliacion' being one of the
\* allowed_fields of Database.update_task.
UpdateAmpliacion ==
    /\ \E t \in tasks, value \in AmpliacionInputs :
          update_task(t.id, "ampliacion", value, 0)
    /\ UNCHANGED <<blobs, botVars, flowVars, outsideFlows>>

NextFlows ==
    \/ FlowMessage
    \/ FlowCategoryCallback
    \/ SelectTaskForAmpliar
    \/ AmpliarMessage
    \/ AmpliarDone
    \/ Photo
    \/ AssignImageCallback
    \/ AssignImageDone
    \/ UpdateAmpliacion

(***************************************************************************)
(*   handle_voice_message and audio_pipeline.process_audio_from_file       *)
(***************************************************************************)

\* config.AUDIO_MAX_DURATION_SECONDS, in the unit of the measured durations.
AUDIO_MAX_DURATION_SECONDS == 2

\* duration > config.AUDIO_MAX_DURATION_SECONDS
DurationExceededMutant(duration) == duration > AUDIO_MAX_DURATION_SECONDS + 1
DurationExceeded(duration) == duration > AUDIO_MAX_DURATION_SECONDS

\* temp_ogg is named after the user and the voice file; temp_wav is
\* audio_{os.getpid()}.wav, one name for every ingest of the process.
temp_ogg(r) == <<"ogg", r>>
temp_wav == <<"wav", 0>>

\* The finally block of process_audio_from_file: clean_temp_files(temp_wav)
\* and, if it exists, clean_temp_files(input_file).
clean_temp_files(r) ==
    /\ temp_files' = temp_files \ {temp_wav, temp_ogg(r)}
    /\ wav_audio' = 0

\* str() of a number below ten, and of a path of config.TEMP_DIR.
DigitChars == <<"0", "1", "2", "3", "4", "5", "6", "7", "8", "9">>
Digit(n) == DigitChars[n + 1]
PathChars(path) == Chars("audio_") \o <<Digit(path[2]), ".">> \o Chars(path[1])

\* The exceptions that leave process_audio_from_file, each with its class
\* and its str(e): those convert_to_wav raises,
NoPipelineError == [type |-> "none", msg |-> <<>>]
InputMissingError(path) ==
    [type |-> "FileNotFoundError",
     msg |-> TextChars(<<"Archivo", "de", "entrada", "no", "existe:">>)
             \o <<" ">> \o PathChars(path)]
TooLongError(duration) ==
    [type |-> "ValueError",
     msg |-> TextChars(<<"Audio", "demasiado", "largo">>)
             \o <<" ", "(", Digit(duration), ".", "0", "s", ")", ".", " ">>
             \o Chars("Máximo:")
             \o <<" ", Digit(AUDIO_MAX_DURATION_SECONDS), "s">>]
FloatError ==
    [type |-> "ValueError",
     msg |-> TextChars(<<"could", "not", "convert", "string", "to", "float:",
                         "''">>)]
FfmpegFailedError(stderr) ==
    [type |-> "RuntimeError",
     msg |-> TextChars(<<"Error", "en", "ffmpeg:">>) \o <<" ">> \o stderr
             \o <<"\n">>
             \o TextChars(<<"Instala", "ffmpeg:",
                            "https://ffmpeg.org/download.html">>)]
NoOutputError ==
    [type |-> "RuntimeError",
     msg |-> TextChars(<<"ffmpeg", "no", "generó", "archivo", "de",
                         "salida">>)]
FfmpegMissingError ==
    [type |-> "RuntimeError",
     msg |-> TextChars(<<"ffmpeg", "no", "está", "instalado.", "Instala",
                         "desde:", "https://ffmpeg.org/download.html">>)]
ConvertTimeoutError ==
    [type |-> "RuntimeError",
     msg |-> TextChars(<<"Timeout", "al", "convertir", "audio">>)]

\* those transcribe_audio and _get_whisper_model raise,
WavMissingError ==
    [type |-> "FileNotFoundError",
     msg |-> TextChars(<<"Archivo", "de", "audio", "no", "existe:">>)
             \o <<" ">> \o PathChars(temp_wav)]
WhisperMissingError ==
    [type |-> "ImportError",
     msg |-> TextChars(<<"faster-whisper", "no", "está", "instalado.",
                         "Instala", "con:", "pip", "install",
                         "faster-whisper">>)]
EmptyTranscriptError ==
    [type |-> "ValueError",
     msg |-> TextChars(<<"No", "se", "pudo", "transcribir", "audio", "(audio",
                         "vacío", "o", "sin", "voz)">>)]

\* and those of the tools themselves: what ffmpeg writes to stderr, what
\* WhisperModel() and model.transcribe raise, what a Telegram call raises.
FfmpegStderr ==
    {TextChars(<<"Invalid", "data", "found", "when", "processing", "input">>)}
WhisperLoadErrors ==
    {[type |-> "RuntimeError",
      msg |-> TextChars(<<"Unable", "to", "open", "file", "model.bin">>)]}
TranscribeErrors ==
    {[type |-> "ValueError",
      msg |-> TextChars(<<"Invalid", "data", "found", "when", "processing",
                          "input">>)]}
TelegramErrors ==
    {[type |-> "TimedOut", msg |-> TextChars(<<"Timed", "out">>)]}

PipelineErrors ==
    {FloatError, NoOutputError, FfmpegMissingError, ConvertTimeoutError,
     WavMissingError, WhisperMissingError, EmptyTranscriptError}
    \cup {InputMissingError(temp_ogg(r)) : r \in 1 .. NumIngests}
    \cup {TooLongError(d) : d \in 1 .. MaxDuration}
    \cup {FfmpegFailedError(e) : e \in FfmpegStderr}
    \cup WhisperLoadErrors \cup TranscribeErrors \cup TelegramErrors

\* The replies of handle_voice_message that end an ingest without a
\* transcript, each with the text it interpolates.
NoVoiceReply == [kind |-> "none", detail |-> <<>>]
TooLongReply(duration) == [kind |-> "too_long", detail |-> <<Digit(duration)>>]
TimeoutReply == [kind |-> "timeout", detail |-> <<>>]
FfmpegReply == [kind |-> "ffmpeg", detail |-> <<>>]
WhisperReply == [kind |-> "faster-whisper", detail |-> <<>>]
ErrorReply(error_msg) == [kind |-> "error", detail |-> error_msg]

\* The except branch of handle_voice_message: the reply for str(e).
VoiceErrorReplyMutant(error_msg) ==
    LET lower == LowerAll(error_msg)
    IN IF Contains(lower, Chars("audio")) THEN FfmpegReply
       ELSE IF Contains(lower, Chars("faster-whisper")) THEN WhisperReply
       ELSE ErrorReply(error_msg)
VoiceErrorReply(error_msg) ==
    LET lower == LowerAll(error_msg)
    IN IF Contains(lower, Chars("ffmpeg")) THEN FfmpegReply
       ELSE IF Contains(lower, Chars("faster-whisper")) THEN WhisperReply
       ELSE ErrorReply(error_msg)

\* VoiceErrorReply of every exception of the model.
VoiceErrorReplies == [e \in PipelineErrors |-> VoiceErrorReply(e.msg)]

\* What ffprobe reports: a duration, a failure (return code, timeout, not
\* installed) or an output that float() rejects.
ProbeOutcomes ==
    {[rc |-> "ok", duration |-> d] : d \in 1 .. MaxDuration}
    \cup {[rc |-> "failed", duration |-> 0], [rc |-> "unparsable", duration |-> 0]}

\* How one subprocess.run of ffmpeg ends: return code 0, another return
\* code, subprocess.TimeoutExpired, FileNotFoundError.
FfmpegOutcomes == {"ok", "nonzero", "timeout", "missing"}

\* The invocations convert_to_wav makes: cmd_with_filters and, when that
\* one returns a non-zero code, cmd_basic.
Invocations(enriched, basic) ==
    IF enriched = "nonzero"
    THEN <<[cmd |-> "cmd_with_filters", outcome |-> enriched],
           [cmd |-> "cmd_basic", outcome |-> basic]>>
    ELSE <<[cmd |-> "cmd_with_filters", outcome |-> enriched]>>

\* What convert_to_wav raises after its invocations, or NoPipelineError.
ConvertError(invocations, produced, stderr) ==
    LET last == invocations[Len(invocations)].outcome
    IN IF last = "missing" THEN FfmpegMissingError
       ELSE IF last = "timeout" THEN ConvertTimeoutError
       ELSE IF last = "nonzero" THEN FfmpegFailedError(stderr)
       ELSE IF ~produced THEN NoOutputError
       ELSE NoPipelineError

\* The transcripts of the voice messages.
VoiceTexts == {<<"crear", "tarea", "urgente">>, <<"crear", "tarea", "cliente", "AB">>}

\* handle_voice_message up to the await of the worker: the check of
\* voice.duration, the download to temp_ogg and the submission of
\* process_audio_from_file; a failing Telegram call ends the handler in its
\* except branch.
VoiceStart ==
    /\ \E r \in 1 .. NumIngests, duration \in 1 .. MaxDuration,
          stop \in {"none", "before_download", "after_download"},
          e \in TelegramErrors :
          /\ ingests[r].pc = "new"
          /\ \A q \in 1 .. r - 1 : ingests[q].pc # "new"
          /\ IF DurationExceeded(duration)
             THEN /\ ingests' = [ingests EXCEPT ![r].pc = "rejected",
                                                ![r].duration = duration,
                                                ![r].cause = "too_long",
                                                ![r].reply =
                                                    TooLongReply(duration)]
                  /\ UNCHANGED temp_files
             ELSE IF stop = "before_download"
             THEN /\ ingests' = [ingests EXCEPT ![r].pc = "error",
                                                ![r].duration = duration,
                                                ![r].cause = "telegram",
                                                ![r].raised = e,
                                                ![r].reply =
                                                    VoiceErrorReplies[e]]
                  /\ UNCHANGED temp_files
             ELSE /\ temp_files' = temp_files \cup {temp_ogg(r)}
                  /\ ingests' = [ingests EXCEPT
                        ![r].pc = IF stop = "none" THEN "awaiting" ELSE "error",
                        ![r].wpc = IF stop = "none" THEN "convert" ELSE "none",
                        ![r].duration = duration,
                        ![r].cause = IF stop = "none" THEN "none"
                                     ELSE "telegram",
                        ![r].raised = IF stop = "none" THEN NoPipelineError
                                      ELSE e,
                        ![r].reply = IF stop = "none" THEN NoVoiceReply
                                     ELSE VoiceErrorReplies[e]]
    /\ storeUntouched
    /\ UNCHANGED <<botVars, handlers, ffmpeg_runs, wav_audio, outsideFlows>>

\* The worker in convert_to_wav: ffprobe, the check of the measured
\* duration, ffmpeg with its fallback.  ffmpeg -y writes temp_wav over
\* whatever the path held.  An exception reaches the finally block of
\* process_audio_from_file in the same step.
WorkerConvert ==
    /\ \E r \in 1 .. NumIngests, probe \in ProbeOutcomes,
          enriched \in FfmpegOutcomes, basic \in FfmpegOutcomes,
          produced \in BOOLEAN, stderr \in FfmpegStderr :
          /\ ingests[r].wpc = "convert"
          /\ IF temp_ogg(r) \notin temp_files
             THEN /\ clean_temp_files(r)
                  /\ ingests' = [ingests EXCEPT
                        ![r].wpc = "done",
                        ![r].cause = "input_missing",
                        ![r].raised = InputMissingError(temp_ogg(r))]
                  /\ UNCHANGED ffmpeg_runs
             ELSE IF probe.rc = "unparsable"
             THEN /\ clean_temp_files(r)
                  /\ ingests' = [ingests EXCEPT
                        ![r].wpc = "done",
                        ![r].cause = "unparsable",
                        ![r].raised = FloatError]
                  /\ UNCHANGED ffmpeg_runs
             ELSE IF probe.rc = "ok" /\ DurationExceeded(probe.duration)
             THEN /\ clean_temp_files(r)
                  /\ ingests' = [ingests EXCEPT
                        ![r].wpc = "done",
                        ![r].cause = "too_long",
                        ![r].raised = TooLongError(probe.duration)]
                  /\ UNCHANGED ffmpeg_runs
             ELSE LET invocations == Invocations(enriched, basic)
                      error == ConvertError(invocations, produced, stderr)
                  IN /\ ffmpeg_runs' = ffmpeg_runs \cup
                           {[r |-> r, duration |-> ingests[r].duration,
                             probe |-> probe, invocations |-> invocations,
                             converted |-> error = NoPipelineError]}
                     /\ IF error = NoPipelineError
                        THEN /\ temp_files' = temp_files \cup {temp_wav}
                             /\ wav_audio' = r
                             /\ ingests' = [ingests EXCEPT
                                   ![r].wpc = "transcribe"]
                        ELSE /\ clean_temp_files(r)
                             /\ ingests' = [ingests EXCEPT
                                   ![r].wpc = "done",
                                   ![r].cause =
                                       IF error = NoOutputError
                                       THEN "no_output"
                                       ELSE invocations[Len(invocations)].outcome,
                                   ![r].raised = error]
    /\ storeUntouched
    /\ UNCHANGED <<botVars, handlers, outsideFlows>>

\* The worker in transcribe_audio and in the finally block: a missing
\* temp_wav, faster_whisper not installed, a model that does not load, a
\* model.transcribe that raises and an empty transcript raise.
WorkerTranscribe ==
    /\ \E r \in 1 .. NumIngests,
          outcome \in {"ok", "engine_missing", "engine_load", "engine_crash",
                       "empty"},
          text \in VoiceTexts, load \in WhisperLoadErrors,
          crash \in TranscribeErrors :
          /\ ingests[r].wpc = "transcribe"
          /\ clean_temp_files(r)
          /\ IF temp_wav \notin temp_files
             THEN ingests' = [ingests EXCEPT
                     ![r].wpc = "done",
                     ![r].cause = "wav_missing",
                     ![r].raised = WavMissingError]
             ELSE ingests' = [ingests EXCEPT
                     ![r].wpc = "done",
                     ![r].cause = outcome,
                     ![r].result = IF outcome = "ok"
                                   THEN [ok |-> TRUE, text |-> text]
                                   ELSE NoTranscript,
                     ![r].raised =
                         IF outcome = "ok" THEN NoPipelineError
                         ELSE IF outcome = "engine_missing"
                         THEN WhisperMissingError
                         ELSE IF outcome = "engine_load" THEN load
                         ELSE IF outcome = "engine_crash" THEN crash
                         ELSE EmptyTranscriptError]
    /\ storeUntouched
    /\ UNCHANGED <<botVars, handlers, ffmpeg_runs, outsideFlows>>

\* handle_voice_message when the worker's future completes in time: an
\* exception is reported, a transcript is handled like a text message.
VoiceResultMutant ==
    /\ \E r \in 1 .. NumIngests, u \in FlowUsers :
          /\ ingests[r].pc \in {"awaiting", "timeout"}
          /\ ingests[r].wpc = "done"
          /\ user_states[u].action # "ampliar_task"
          /\ LET transcript == ingests[r].result
             IN IF ~transcript.ok
                THEN /\ ingests' = [ingests EXCEPT
                           ![r].pc = "error",
                           ![r].reply = VoiceErrorReplies[ingests[r].raised]]
                     /\ UNCHANGED <<botVars, clientVars>>
                     /\ storeUntouched
                ELSE /\ ingests' = [ingests EXCEPT ![r].pc = "done"]
                     /\ IF user_states[u].action = "waiting_category"
                        THEN handle_category_response(u, transcript.text)
                        ELSE handle_intent(u, parse(transcript.text, clients,
                                                    cfg))
    /\ UNCHANGED <<handlers, temp_files, ffmpeg_runs, wav_audio,
                   outsideReplies, lastReply>>
VoiceResult ==
    /\ \E r \in 1 .. NumIngests, u \in FlowUsers :
          /\ ingests[r].pc = "awaiting"
          /\ ingests[r].wpc = "done"
          /\ user_states[u].action # "ampliar_task"
          /\ LET transcript == ingests[r].result
             IN IF ~transcript.ok
                THEN /\ ingests' = [ingests EXCEPT
                           ![r].pc = "error",
                           ![r].reply = VoiceErrorReplies[ingests[r].raised]]
                     /\ UNCHANGED <<botVars, clientVars>>
                     /\ storeUntouched
                ELSE /\ ingests' = [ingests EXCEPT ![r].pc = "done"]
                     /\ IF user_states[u].action = "waiting_category"
                        THEN handle_category_response(u, transcript.text)
                        ELSE handle_intent(u, parse(transcript.text, clients,
                                                    cfg))
    /\ UNCHANGED <<handlers, temp_files, ffmpeg_runs, wav_audio,
                   outsideReplies, lastReply>>

\* asyncio.TimeoutError of wait_for: the reply, and the handler returns; the
\* worker goes on.
VoiceTimeout ==
    /\ \E r \in 1 .. NumIngests :
          /\ ingests[r].pc = "awaiting"
          /\ ingests[r].wpc # "done"
          /\ ingests' = [ingests EXCEPT ![r].pc = "timeout",
                                        ![r].reply = TimeoutReply]
    /\ storeUntouched
    /\ UNCHANGED <<botVars, handlers, temp_files, ffmpeg_runs, wav_audio,
                   outsideFlows>>

NextVoice ==
    \/ VoiceStart
    \/ WorkerConvert
    \/ WorkerTranscribe
    \/ VoiceResult
    \/ VoiceTimeout

(***************************************************************************)
(*                            Specifications                               *)
(***************************************************************************)

RetryInit ==
    InitRetry /\ ParkedWhisper /\ ParkedClients /\ ParkedResolver /\ ParkedStore
    /\ ParkedBot
SpecRetry == RetryInit /\ [][NextRetry]_vars

WhisperInit ==
    InitWhisper /\ ParkedRetry /\ ParkedClients /\ ParkedResolver /\ ParkedStore
    /\ ParkedBot
SpecWhisper == WhisperInit /\ [][NextWhisper]_vars

\* The threads are scheduled fairly and every import and construction
\* attempt ends: a step of a call that can be taken for ever is taken.  A
\* new call is the caller's choice.
WhisperFairness ==
    \A t \in WThreads :
        WF_vars(WCheck1(t) \/ WAcquire(t) \/ WCheck2(t) \/ WImport(t)
                \/ WConstruct(t) \/ WReturn(t))
SpecWhisperFair == WhisperInit /\ [][NextWhisper]_vars /\ WhisperFairness

ClientsInit ==
    InitClients /\ InitResolver /\ ParkedRetry /\ ParkedWhisper /\ ParkedStore
    /\ ParkedBot
SpecClients == ClientsInit /\ [][NextClients]_vars

StoreInit ==
    InitStore /\ InitRegistry /\ ParkedResolver /\ ParkedRetry /\ ParkedWhisper
    /\ ParkedBot
SpecStore == StoreInit /\ [][NextStore]_vars
SpecTaskFields == StoreInit /\ [][NextTaskFields]_vars

BotInit ==
    InitBot /\ ParkedStore /\ ParkedResolver /\ ParkedRetry /\ ParkedWhisper
SpecBot == BotInit /\ [][NextBot]_vars
SpecFlows == BotInit /\ [][NextFlows]_vars
SpecVoice == BotInit /\ [][NextVoice]_vars

ParserInit ==
    /\ InitParser
    /\ clients = ParserRegistry /\ nextClientId = 2 /\ cLast = NoOp
    /\ user_states = [u \in Users |-> NoState]
    /\ prompts = [u \in Users |-> {}]
    /\ pendingNew = {}
    /\ selections = [u \in Users |-> 0]
    /\ handlers = [h \in 1 .. NumHandlers |-> FreeHandler]
    /\ lastReply = NoReply
    /\ ParkedVoice /\ ParkedStore /\ ParkedResolver /\ ParkedRetry
    /\ ParkedWhisper /\ ParkedCalls
SpecParser == ParserInit /\ [][NextParser]_vars

CallsInit ==
    /\ InitCalls
    /\ clients = {} /\ nextClientId = 1 /\ cLast = NoOp
    /\ user_states = [u \in Users |-> NoState]
    /\ prompts = [u \in Users |-> {}]
    /\ pendingNew = {}
    /\ selections = [u \in Users |-> 0]
    /\ handlers = [h \in 1 .. NumHandlers |-> FreeHandler]
    /\ lastReply = NoReply
    /\ ParkedVoice /\ ParkedParser /\ ParkedStore /\ ParkedResolver
    /\ ParkedRetry /\ ParkedWhisper
SpecCalls == CallsInit /\ [][NextCalls]_vars

(***************************************************************************)
(*                 Properties of _execute_with_retry                       *)
(***************************************************************************)

AllLocked(h) == \A i \in 1 .. Len(h) : h[i] = "locked"

\* C1: a call whose attempts raise the lock error exactly k times, k below
\* max_retries, and then succeed returns the operation's result after exactly
\* k+1 attempts, having slept once before each retry, for at least
\* delay*2^0 + ... + delay*2^(k-1) in total; and a call that met only k lock
\* errors, k below max_retries, has not raised.
C1_ReturnsAfterLockedAttempts ==
    /\ rPc = "returned" =>
          LET k == CountLocked(rHist) IN
          /\ k < rMax
          /\ Len(rHist) = k + 1
          /\ AllLocked(SubSeq(rHist, 1, k))
          /\ rHist[k + 1] = "ok"
          /\ rResult = rOpResult
          /\ rResult \in OpResults
          /\ rSleeps = k
          /\ rSlept >= SumBackoff(rDelay, k)
    /\ (AllLocked(rHist) /\ Len(rHist) < rMax) => rPc # "raised"

C1_Witness ==
    /\ rPc = "returned"
    /\ rMax = DefaultMaxRetries
    /\ CountLocked(rHist) = 3
    /\ rSlept = 7 * rDelay

\* C2: when every attempt raises the lock error, the call fails after exactly
\* max_retries attempts and the error it raises is the "store busy" error,
\* not the lock error of one attempt.
C2_ExhaustedRaisesStoreBusy ==
    (rPc = "raised" /\ AllLocked(rHist)) =>
        /\ Len(rHist) = rMax
        /\ rRaised = StoreBusy

\* C3: an error that is not a lock error, raised on any attempt, ends the
\* call at once with that error: it is the last attempt, and the only sleeps
\* are those of the lock errors before it.
C3_NonTransientPropagates ==
    \A i \in 1 .. Len(rHist) :
        rHist[i] \in {"operational", "integrity"} =>
            /\ i = Len(rHist)
            /\ rPc = "raised"
            /\ rRaised = rHist[i]
            /\ rAttempt = i - 1
            /\ rSleeps = i - 1
            /\ rSlept = SumBackoff(rDelay, i - 1)
            /\ ~rConn

C3_Witness ==
    /\ rPc = "raised"
    /\ rRaised = "operational"
    /\ Len(rHist) = 3
    /\ rMax = DefaultMaxRetries

\* C35: a call that returned has committed exactly one execution of the
\* operation, whatever the number of attempts that failed before; a call
\* that raised has committed none; no call commits two; and when an attempt
\* has failed, its transaction holds nothing while the call sleeps and when
\* the next attempt begins.
C35_RetriedWriteOnce ==
    /\ rPc = "returned" => rApplied = 1
    /\ rPc = "raised" => rApplied = 0
    /\ rApplied <= 1
    /\ rPc \in {"loop", "sleeping", "returned", "raised"} => rTxn = 0

\* A call returned after two attempts that met the lock, and another
\* description of the same state: one execution is committed.
C35_Witness ==
    /\ rPc = "returned"
    /\ CountLocked(rHist) = 2
    /\ Len(rHist) = 3
    /\ rApplied = 1

(***************************************************************************)
(*                  Properties of _get_whisper_model                       *)
(***************************************************************************)

InLoad == {t \in WThreads : wPc[t] \in LoadPcs}

\* What C4 states apart from the count of entries into the load section: at
\* most one construction succeeds, one thread at a time is in the load
\* section and it holds the lock, every call that returned returned the one
\* instance, and a call that began after the model was loaded took no lock.
OnceOnlyLoad ==
    /\ wBuilt <= 1
    /\ Cardinality(InLoad) <= 1
    /\ \A t \in InLoad : model_lock = {t}
    /\ \A t \in WThreads : wRet[t] # NoModel => wRet[t] = whisper_model
    /\ \A t \in WThreads : wWarmAtCall[t] => ~wTookLock[t]

\* C4 as stated: the model is constructed at most once, every caller returns
\* the same instance, accesses after warm-up take no lock, and the load
\* section is entered at most once in the life of the process.
C4_LoadEnteredAtMostOnce ==
    /\ OnceOnlyLoad
    /\ wLoadEntered <= 1

\* C4 as amended: the load section is entered again only after a load that
\* left by an exception; without a failed load it is entered at most once.
C4_LoadEnteredOncePerFailure ==
    /\ OnceOnlyLoad
    /\ wLoadEntered <= 1 + wLoadFailed
    /\ wBuilt = 1 => wLoadEntered = 1 + wLoadFailed

\* Two cold-start callers both took the lock and got the same instance.
C4_Witness ==
    \E t1, t2 \in WThreads :
        /\ t1 # t2
        /\ wTookLock[t1] /\ wTookLock[t2]
        /\ wPc[t1] = "idle" /\ wPc[t2] = "idle"
        /\ wRet[t1] # NoModel
        /\ wRet[t1] = wRet[t2]
        /\ wLoadFailed = 0

\* C27: once the model is loaded, every step leaves _whisper_model the same
\* instance, and is_model_loaded() stays true.
C27_LoadedModelRetained ==
    [][whisper_model # NoModel =>
          /\ whisper_model' = whisper_model
          /\ is_model_loaded => is_model_loaded'
      ]_vars

\* A call that began after the model was loaded returned the instance that
\* a call which took the lock returned.
C27_Witness ==
    \E t1, t2 \in WThreads :
        /\ t1 # t2
        /\ is_model_loaded
        /\ wWarmAtCall[t1] /\ wPc[t1] = "idle" /\ wRet[t1] = whisper_model
        /\ wTookLock[t2] /\ wPc[t2] = "idle" /\ wRet[t2] = whisper_model

\* C36: a step by which an exception leaves the load section releases
\* _model_lock, leaves the model as it was and gives the caller the error;
\* the lock is held only by a thread that is inside the with block; and
\* every call ends: its thread gets a model or an error.
C36_LoadLockReleased ==
    /\ [][\A t \in WThreads :
             (wPc[t] \in LoadPcs /\ wErr'[t])
             => /\ model_lock' = NoHolder
                /\ whisper_model' = whisper_model
                /\ wPc'[t] = "idle"
         ]_vars
    /\ [](\/ model_lock = NoHolder
          \/ \E t \in WThreads :
                model_lock = {t} /\ wPc[t] \in LoadPcs \cup {"check2"})
    /\ \A t \in WThreads :
          (wPc[t] # "idle")
             ~> (wPc[t] = "idle" /\ (wRet[t] # NoModel \/ wErr[t]))

\* A load failed, the model is still unloaded, the lock is free again, and
\* another call has entered the load section after the failure.
C36_Witness ==
    /\ wLoadFailed = 1
    /\ wLoadEntered = 2
    /\ whisper_model = NoModel
    /\ \E t \in WThreads : wErr[t] /\ wPc[t] = "idle"
    /\ \E t \in WThreads : model_lock = {t} /\ wPc[t] = "try1"

(***************************************************************************)
(*             Properties of the resolver and of the registry              *)
(***************************************************************************)

Max(S) == CHOOSE x \in S : \A y \in S : x >= y

\* The similarity of a normalized mention to every canonical name and every
\* alias of the registry.
ScoresOf(input, rows) ==
    {ratio(input, c.normalized_name) : c \in rows}
    \cup UNION {{ratio(input, normalize_text(Chars(c.aliases[i]))) :
                    i \in 1 .. Len(c.aliases)} : c \in rows}

NamesIn(rows) == Cardinality(rows) + Cardinality(
    {<<c.id, i>> : c \in rows, i \in 1 .. MaxAliases + 1} \cap
    UNION {{<<c.id, i>> : i \in 1 .. Len(c.aliases)} : c \in rows})

\* C8: for a mention that equals no normalized client name, with best score s
\* over all names and aliases: action=auto when s >= AUTO, confirm when
\* CONFIRM <= s < AUTO, create with found=false when s < CONFIRM or the
\* registry is empty; the result has a candidate list exactly when the action
\* is confirm, of at most max_candidates entries.
C8_ResolverTiers ==
    match.action # "none" =>
        LET input == normalize_text(Chars(mention))
            exactHit == \E c \in clients : c.normalized_name = input
        IN
        /\ ("candidates" \in DOMAIN match) <=> (match.action = "confirm")
        /\ ("candidates" \in DOMAIN match) =>
              /\ Len(match.candidates) <= cfg.max_candidates
              /\ Len(match.candidates) >= 1
        /\ (~exactHit /\ clients = {}) =>
              (match.action = "create" /\ ~match.found)
        /\ (~exactHit /\ clients # {}) =>
              LET s == Max(ScoresOf(input, clients)) IN
              /\ match.confidence = s
              /\ s >= cfg.auto => (match.action = "auto" /\ match.found)
              /\ (cfg.confirm <= s /\ s < cfg.auto) =>
                     (match.action = "confirm" /\ match.found)
              /\ s < cfg.confirm => (match.action = "create" /\ ~match.found)

\* A confirm result cut to max_candidates out of more scored names.
C8_Witness ==
    /\ match.action = "confirm"
    /\ Len(match.candidates) = cfg.max_candidates
    /\ NamesIn(clients) > cfg.max_candidates
    /\ match.confidence < cfg.auto

\* C9: resolving a mention whose normalized form is the normalized name of a
\* registered client yields found, that client's id, action=auto and
\* confidence=100, after any sequence of registry operations.
C9_ExactNameResolvesToThatClient ==
    match.action # "none" =>
        \A c \in clients :
            c.normalized_name = normalize_text(Chars(mention)) =>
                /\ match.found
                /\ match.action = "auto"
                /\ match.confidence = 100
                /\ match.client_id = c.id

\* C10: create_client fails with the duplicate error whenever a registered
\* client already has the same normalized name, so no two clients ever share
\* a normalized_name.
C10_NoDuplicateNormalizedName ==
    /\ (cLast.op = "create_client" /\ cLast.dup) => cLast.raised = "ValueError"
    /\ \A c, d \in clients :
          c.id # d.id => c.normalized_name # d.normalized_name

(***************************************************************************)
(*                     Properties of the task store                        *)
(***************************************************************************)

\* C7: after delete_task(t) returns, the task row t and every task_images row
\* of t are gone, also when the removal of an image's remote blob failed.
C7_DeleteTaskRemovesImageRows ==
    (tLast.op = "delete_task" /\ tLast.raised = NoError) =>
        /\ ~\E t \in tasks : t.id = tLast.id
        /\ ~\E i \in task_images : i.task_id = tLast.id

(***************************************************************************)
(*                 Properties of the two-phase creation                    *)
(***************************************************************************)

TasksOf(u) == {t \in tasks : t.user_id = u}

\* C5: a task row is inserted only on a category selection of a user whose
\* state is 'waiting_category': no user has more tasks than category
\* selections, every task carries a category, and every step that inserts a
\* task is such a selection.
C5_TaskOnlyAfterCategory ==
    /\ [](\A u \in Users : Cardinality(TasksOf(u)) <= selections[u])
    /\ [](\A t \in tasks : t.category \in Categories)
    /\ [][\A t \in tasks' \ tasks :
             /\ user_states[t.user_id].action = "waiting_category"
             /\ selections'[t.user_id] = selections[t.user_id] + 1]_vars

C5_Witness ==
    \E u \in Users :
        /\ TasksOf(u) # {}
        /\ user_states[u].action = "waiting_category"
        /\ Cardinality(TasksOf(u)) < selections[u]

\* C6: a category selection of a user whose state is 'waiting_category'
\* persists the pending task and removes the user's entry, whatever the
\* pending command's priority (a store that stayed locked apart).
C6_SelectionPersistsAndIdles ==
    [][\A u \in Users :
          (/\ user_states[u].action = "waiting_category"
           /\ selections'[u] = selections[u] + 1
           /\ tLast'.raised # "locked")
          => (/\ user_states'[u] = NoState
              /\ \E t \in tasks' \ tasks : t.user_id = u)]_vars

C32_UsersDoNotInterfere ==
    [][LET Others(u) == \A v \in Users \ {u} : user_states'[v] = user_states[v]
       IN /\ \A u \in Users, t \in Texts :
                (/\ user_states[u].action # "ampliar_task"
                 /\ IF user_states[u].action = "waiting_category"
                    THEN handle_category_response(u, t)
                    ELSE handle_intent(u, parse(t, clients, cfg)))
                => Others(u)
          /\ \A u \in Users, category \in PressedCategories :
                (/\ user_states[u].action = "waiting_category"
                 /\ create_task_with_category(u, category, user_states[u]))
                => Others(u)
          /\ \A u \in Users : prompts'[u] # prompts[u] => Others(u)
          /\ \A c \in pendingNew : c \notin pendingNew' => Others(c.user)
          /\ \A u, v \in Users :
                (user_states'[u] # user_states[u]
                 /\ user_states'[v] # user_states[v]) => u = v
          /\ \A u \in Users :
                user_states[u].action # "ampliar_task"
                => \E t \in Texts :
                      ENABLED (IF user_states[u].action = "waiting_category"
                               THEN handle_category_response(u, t)
                               ELSE handle_intent(u, parse(t, clients, cfg)))
      ]_vars

\* One user is asked for the category while the other has a client
\* question open.
C32_Witness ==
    \E u, v \in Users :
        /\ u # v
        /\ user_states[u].action = "waiting_category"
        /\ prompts[v] # {}
        /\ tasks # {}

\* C39: a client registered from a client question, the offer of a mention
\* without a match or the 'create new client' button of the confirmation
\* question, carries the mention extracted from the text as its name, never
\* an empty name; and the entry 'waiting_category' stored after the
\* registration names the id of the registered client.
C39_NewClientCarriesMention ==
    [][/\ \A c \in clients' \ clients :
             /\ c.name # ""
             /\ \E u \in Users : \E p \in prompts[u] \ prompts'[u] :
                    c.name = parse(p.original_text, clients, cfg).client.raw
       /\ \A c \in pendingNew \ pendingNew' :
             /\ user_states'[c.user].action = "waiting_category"
             /\ user_states'[c.user].client_id = c.client_id
             /\ \E k \in clients' : k.id = c.client_id
      ]_vars

(***************************************************************************)
(*                  Properties of the store's operations                   *)
(***************************************************************************)

\* C11: the status of a task only moves forward: every step that changes a
\* task's status takes it from open to completed or from open to cancelled.
C11_StatusForwardOnly ==
    [][\A t \in tasks : \A n \in tasks' :
          (n.id = t.id /\ n.status # t.status) =>
              (t.status = "open" /\ n.status \in {"completed", "cancelled"})
      ]_vars

\* C12: a single transient 'database is locked' error during a mutating
\* operation of the store is retried and never reaches the caller.
C12_SingleLockIsRetried ==
    tLast.locks = 1 => tLast.raised # "locked"

\* C19: delete_client(c) deletes no task, nulls the client_id of the tasks
\* that referenced c and changes nothing else of any task.
C19_DeleteClientNullsReference ==
    [][cLast'.op = "delete_client" /\ clients' # clients =>
          LET c == cLast'.id IN
          tasks' = {IF t.client_id = c THEN [t EXCEPT !.client_id = NoId]
                    ELSE t : t \in tasks}
      ]_vars

\* C20: no persisted task has a status outside {open, completed, cancelled},
\* a priority outside {normal, urgent} or a category that is not one of the
\* defined categories.
C20_EnumFieldsEnforced ==
    \A t \in tasks :
        /\ t.status \in StatusValues
        /\ t.priority \in PriorityValues
        /\ t.category \in default_categories \cup Categories

\* C34, as stated: no connection is open while a call to the SFTP server is
\* in progress; delete_task opens the connection of its DELETE after the
\* last remote deletion; complete_task starts the remote deletions after
\* its update was committed and the connection closed; and a connection of
\* _execute_with_retry is closed when the call sleeps, when the next
\* attempt begins and when the call has returned or raised.
C34_NoConnectionAcrossCalls ==
    /\ oNet => ~oConn /\ ~rConn
    /\ oPc = "deleting" => oLeft = 0 /\ ~oNet
    /\ (oOp = "complete_task" /\ oNet) =>
           rPc = "returned" /\ rApplied = 1 /\ ~rConn
    /\ rPc \in {"sleeping", "loop", "returned", "raised"} => ~rConn

\* C34, amended: as above, but of the sleep only this holds: the failed
\* attempt was rolled back, so the connection that stays open through the
\* sleep holds no transaction, and no call to the SFTP server is made
\* meanwhile; the connection is closed when the next attempt begins and
\* when the call has returned or raised.
C34_NoLockAcrossCalls ==
    /\ oNet => ~oConn /\ ~rConn
    /\ oPc = "deleting" => oLeft = 0 /\ ~oNet
    /\ (oOp = "complete_task" /\ oNet) =>
           rPc = "returned" /\ rApplied = 1 /\ ~rConn
    /\ rPc = "sleeping" => rTxn = 0 /\ ~oNet
    /\ rPc \in {"loop", "returned", "raised"} => ~rConn

\* complete_task deletes a remote file after an update that met the lock
\* once.
C34_Witness ==
    /\ oOp = "complete_task"
    /\ oNet
    /\ rSleeps = 1

(***************************************************************************)
(*                      Properties of the side-flows                       *)
(***************************************************************************)

\* C13: no handler fails because the user's entry was already removed by
\* another handler of the same user.
C13_NoHandlerFailsOnMissingEntry ==
    \A h \in 1 .. NumHandlers : handlers[h].pc # "KeyError"

\* C14: a user enters 'ampliar_task' or 'waiting_task_for_image' only from no
\* entry at all, and the end of a side-flow call leaves the user with no
\* entry.
C14_SideFlowsFromIdleOnly ==
    [][/\ \A u \in Users :
            (/\ user_states'[u].action \in
                   {"ampliar_task", "waiting_task_for_image"}
             /\ user_states'[u].action # user_states[u].action)
            => user_states[u] = NoState
       /\ \A h \in 1 .. NumHandlers :
            (handlers[h].pc \in {"ampliar", "assign"} /\ handlers'[h] # handlers[h])
            => user_states'[handlers[h].u] = NoState
      ]_vars

(***************************************************************************)
(*                     Properties of the voice ingest                      *)
(***************************************************************************)

\* C16: when an ingest is over (the handler has returned and its worker, if
\* one was started, has finished) its downloaded audio is gone, and when
\* every ingest is over the transcoded waveform is gone too.
C16_TempFilesRemoved ==
    LET Over(r) == /\ ingests[r].pc \in {"rejected", "error", "done", "timeout"}
                   /\ ingests[r].wpc \in {"none", "done"}
    IN /\ \A r \in 1 .. NumIngests : Over(r) => temp_ogg(r) \notin temp_files
       /\ (\A r \in 1 .. NumIngests : Over(r) \/ ingests[r].pc = "new")
             => temp_wav \notin temp_files

\* C17: ffmpeg is never invoked for an audio whose measured duration, the
\* one Telegram reports or the one ffprobe reports, is above the ceiling.
C17_NoTranscodingAboveCeiling ==
    \A run \in ffmpeg_runs :
        /\ run.duration <= AUDIO_MAX_DURATION_SECONDS
        /\ run.probe.rc = "ok" =>
               run.probe.duration <= AUDIO_MAX_DURATION_SECONDS

\* One audio was transcoded after ffprobe measured it, and the worker of
\* another ended without any transcoding.
C17_Witness ==
    /\ \E run \in ffmpeg_runs : run.probe.rc = "ok"
    /\ \E r \in 1 .. NumIngests :
          /\ ingests[r].wpc = "done"
          /\ ~\E run \in ffmpeg_runs : run.r = r

\* C18: the step that times a request out, and every later step of that
\* request, leaves the conversation state, the registry and the store as
\* they are, and a request that timed out stays abandoned.
C18_TimeoutAbandonsRequest ==
    [][\A r \in 1 .. NumIngests :
          /\ (ingests'[r].pc = "timeout" /\ ingests'[r] # ingests[r])
                => UNCHANGED <<botVars, clientVars, storeVars>>
          /\ ingests[r].pc = "timeout" => ingests'[r].pc = "timeout"
      ]_vars

\* A request that timed out and whose worker produced a transcript later.
C18_Witness ==
    \E r \in 1 .. NumIngests :
        /\ ingests[r].pc = "timeout"
        /\ ingests[r].wpc = "done"
        /\ ingests[r].result.ok

\* C31: an ingest that ended because the recognizer returned no speech
\* differs, in the exception its worker raised and in the reply that
\* reported it, from every ingest that ended because ffmpeg or the
\* recognition engine was missing or failed, or because the audio was too
\* long.
C31_EmptyTranscriptDistinct ==
    LET ToolFailures == {"missing", "timeout", "nonzero", "no_output",
                         "engine_missing", "engine_load", "engine_crash"}
        Reported(r) == ingests[r].pc \in {"error", "rejected"}
    IN \A r, q \in 1 .. NumIngests :
          (/\ ingests[r].cause = "empty"
           /\ ingests[q].cause \in ToolFailures \cup {"too_long"})
          => /\ ingests[r].raised # ingests[q].raised
             /\ (Reported(r) /\ Reported(q))
                   => ingests[r].reply # ingests[q].reply

\* An empty transcript and a conversion that timed out were both reported.
C31_Witness ==
    \E r, q \in 1 .. NumIngests :
        /\ ingests[r].cause = "empty" /\ ingests[r].pc = "error"
        /\ ingests[r].raised.type = "ValueError"
        /\ ingests[q].cause = "timeout" /\ ingests[q].pc = "error"

\* C33: in every conversion the invocation with filters comes first; when
\* it fails, by its return code, by a timeout or because ffmpeg is missing,
\* the basic invocation follows, once; a conversion whose invocation with
\* filters succeeded makes no other; and a conversion that ended with an
\* error of ffmpeg made both invocations and both failed.
C33_FallbackBeforeFailure ==
    \A run \in ffmpeg_runs :
        LET inv == run.invocations
        IN /\ inv[1].cmd = "cmd_with_filters"
           /\ inv[1].outcome = "ok" => Len(inv) = 1
           /\ inv[1].outcome # "ok" =>
                  Len(inv) = 2 /\ inv[2].cmd = "cmd_basic"
           /\ ingests[run.r].cause \in {"nonzero", "timeout", "missing"} =>
                  /\ Len(inv) = 2
                  /\ \A i \in 1 .. 2 : inv[i].outcome # "ok"

\* C37: while the worker of an ingest is between its transcoding and the
\* end of its transcription, the waveform file exists and holds the audio
\* of that ingest: no other ingest has written over it or removed it.
C37_WaveformNotShared ==
    \A r \in 1 .. NumIngests :
        ingests[r].wpc = "transcribe" =>
            /\ temp_wav \in temp_files
            /\ wav_audio = r

\* C28: every step leaves the ampliacion of each task a prefix of its new
\* value: the texts stored before stay, in their order, and nothing is
\* shortened or replaced.
C28_AmpliacionAppendOnly ==
    [][\A t \in tasks : \A n \in tasks' :
          n.id = t.id =>
             /\ Len(t.ampliacion) <= Len(n.ampliacion)
             /\ SubSeq(n.ampliacion, 1, Len(t.ampliacion)) = t.ampliacion
      ]_vars

\* The texts of the model in which no key of category_map occurs.
TextsWithoutCategory ==
    {t \in Texts :
        \A k \in 1 .. Len(category_map) :
           ~Contains(Strip(LowerAll(TextChars(t))), category_map[k].key)}

C30_NoExceptionTextRelayed ==
    lastReply.kind = "error" => lastReply.detail = "none"

(***************************************************************************)
(*                     Properties of IntentParser.parse                    *)
(***************************************************************************)

\* C21: a text that contains "mañana" and no time of day gets the date one
\* day after today at 09:00.
C21_TomorrowAtNine ==
    (pOut # NotParsed /\ Contains(LowerAll(TextChars(pText)), Chars("mañana")))
        => pOut.date = [found |-> TRUE, days |-> 1, hour |-> 9, minute |-> 0]

\* C38: every relative-date keyword resolves to its own offset: a text that
\* contains "pasado mañana" gets the day two days after today, not the day
\* after today that its substring "mañana" stands for, and a text that
\* contains "próxima semana" gets the day seven days after today.
C38_LongerKeywordNotShadowed ==
    pOut # NotParsed =>
        \A text \in {LowerAll(TextChars(pText))} :
            /\ Contains(text, Chars("pasado mañana"))
                  => pOut.date.found /\ pOut.date.days = 2
            /\ Contains(text, Chars("próxima semana"))
                  => pOut.date.found /\ pOut.date.days = 7

\* C22: the priority is the one of the first keyword of the table, in its
\* order, that the text contains: "urgente" gives urgent whatever other
\* keyword is there, and no keyword gives normal.
C22_FirstPriorityKeywordWins ==
    pOut # NotParsed =>
        \A text \in {LowerAll(TextChars(pText))} :
            LET Has(i) == Contains(text, PRIORITY_MAP[i].keyword)
                keys == 1 .. Len(PRIORITY_MAP)
            IN /\ Contains(text, Chars("urgente")) => pOut.priority = "urgent"
               /\ (\A i \in keys : ~Has(i)) => pOut.priority = "normal"
               /\ \A i \in keys :
                     (Has(i) /\ \A j \in 1 .. i - 1 : ~Has(j))
                        => pOut.priority = PRIORITY_MAP[i].priority

\* A text with "baja" before "urgente" was parsed as urgent.
C22_Witness ==
    /\ pText = <<"pagar", "baja", "urgente">>
    /\ pOut # NotParsed
    /\ pOut.priority = "urgent"

\* C23: the intent is the first one, in the order CREAR, LISTAR, CERRAR,
\* REPROGRAMAR, CAMBIAR_PRIORIDAD, every one of whose pattern groups is
\* found in the text, and CREAR when no intent has all its groups found.
C23_FirstFullIntentWins ==
    /\ [i \in 1 .. Len(INTENT_PATTERNS) |-> INTENT_PATTERNS[i].intent]
          = <<"CREAR", "LISTAR", "CERRAR", "REPROGRAMAR", "CAMBIAR_PRIORIDAD">>
    /\ pOut # NotParsed =>
          \A text \in {LowerAll(TextChars(pText))} :
             LET Full(i) ==
                     \A k \in 1 .. Len(INTENT_PATTERNS[i].patterns) :
                        \E alt \in INTENT_PATTERNS[i].patterns[k] :
                           Contains(text, alt)
                 intents == 1 .. Len(INTENT_PATTERNS)
             IN /\ (\A i \in intents : ~Full(i)) => pOut.intent = "CREAR"
                /\ \A i \in intents :
                      (Full(i) /\ \A j \in 1 .. i - 1 : ~Full(j))
                         => pOut.intent = INTENT_PATTERNS[i].intent

\* A text with all groups of CREAR and of CAMBIAR_PRIORIDAD was parsed as
\* CREAR.
C23_Witness ==
    /\ pText = <<"crear", "tarea", "urgente">>
    /\ pOut # NotParsed
    /\ pOut.intent = "CREAR"

\* C24: extracting the title of an extracted title gives the same title.
C24_TitleIdempotent ==
    pTitle2 # NotParsed => pTitle2.title = pOut.title

\* C25: a text that is a weekday keyword gets the next occurrence of that
\* weekday at 09:00, 1 to 7 days after today and 7 when it names today's
\* weekday.
C25_NextWeekdayAhead ==
    LET names == <<"el lunes", "el martes", "el miércoles", "el jueves",
                   "el viernes", "el sábado", "el domingo">>
    IN \A n \in 1 .. 7 :
          (pOut # NotParsed /\ pText = <<names[n]>>) =>
             /\ pOut.date.found
             /\ pOut.date.days \in 1 .. 7
             /\ (pToday + pOut.date.days) % 7 = n - 1
             /\ pToday = n - 1 => pOut.date.days = 7
             /\ pOut.date.hour = 9 /\ pOut.date.minute = 0

\* "el miércoles" was parsed on a Wednesday and gave the date a week later.
C25_Witness ==
    /\ pText = <<"el miércoles">> /\ pToday = 2
    /\ pOut # NotParsed
    /\ pOut.date.days = 7

\* C26: with Acme registered, "crear tarea llamar al cliente Acme urgente
\* mañana" is parsed as CREAR, an automatic match of Acme, urgent, tomorrow
\* at 09:00, and a title with "llamar" and without "urgente", "mañana",
\* "Acme".
C26_EndToEnd ==
    (/\ pOut # NotParsed
     /\ pText = <<"crear", "tarea", "llamar", "al", "cliente", "Acme",
                  "urgente", "mañana">>) =>
        /\ pOut.intent = "CREAR"
        /\ pOut.client.match.action = "auto"
        /\ pOut.client.match.client_name = "Acme"
        /\ pOut.priority = "urgent"
        /\ pOut.date = [found |-> TRUE, days |-> 1, hour |-> 9, minute |-> 0]
        /\ Contains(pOut.title, Chars("llamar"))
        /\ ~Contains(pOut.title, Chars("urgente"))
        /\ ~Contains(pOut.title, Chars("mañana"))
        /\ ~Contains(pOut.title, Chars("Acme"))

=============================================================================
